---------------------------- MODULE Spec2Model ----------------------------
(***************************************************************************)
(* A model of the CLI reference generator:                                 *)
(*   docs/scripts/cli_reference_generation/scan_cli.py                     *)
(*       CLIScanner: the recursive prober (scan, scan_command,             *)
(*       run_command) and its two help parsers;                            *)
(*   docs/scripts/cli_reference_generation/transform_to_markdown.py        *)
(*       MarkdownGenerator: the table of contents and the body.            *)
(*                                                                         *)
(* A Python str is a sequence of one-character strings, a list is a        *)
(* sequence, a dict with string keys is a record (a key is present iff it  *)
(* is in the record's DOMAIN).  TLC compares only values of one kind, so   *)
(* Python's None is None where the other values are tags, NoText where     *)
(* they are strs and NoMatch where they are re match objects.  The escape  *)
(* character \x1b is written "ESC" and the backquote \x60 is written "BQ". *)
(***************************************************************************)
EXTENDS Integers, Sequences, FiniteSets, TLC

None == "None"

\* None as an Optional[str]: no str, as no character is "None".
NoText == <<"None">>

\* None as the result of re.match or re.search.
NoMatch == [matched |-> FALSE]

(***************************************************************************)
(* Python str operations, on sequences of characters.                      *)
(***************************************************************************)

\* str.isspace() of one character, the class \s of re.
IsSpace(c) == c \in {" ", "\t", "\n", "\r"}

UpperCase ==
    {"A", "B", "C", "D", "E", "F", "G", "H", "I", "J", "K", "L", "M", "N",
     "O", "P", "Q", "R", "S", "T", "U", "V", "W", "X", "Y", "Z"}

LowerCase ==
    {"a", "b", "c", "d", "e", "f", "g", "h", "i", "j", "k", "l", "m", "n",
     "o", "p", "q", "r", "s", "t", "u", "v", "w", "x", "y", "z"}

Digits == {"0", "1", "2", "3", "4", "5", "6", "7", "8", "9"}

\* Op(v) with v evaluated once, as Python evaluates an argument before the call
\* (TLC evaluates an operator's argument where the operator uses it).
Eager(v, Op(_)) == CHOOSE r \in {Op(x) : x \in {v}} : TRUE

Min(S) == Eager(S, LAMBDA T : CHOOSE x \in T : \A y \in T : x <= y)

Max(S) == Eager(S, LAMBDA T : CHOOSE x \in T : \A y \in T : x >= y)

\* s[i:] with a 1-based i.
From(s, i) == SubSeq(s, i, Len(s))

\* s.startswith(p)
StartsWith(s, p) == Len(p) <= Len(s) /\ SubSeq(s, 1, Len(p)) = p

\* s[i:].startswith(p) with a 1-based i.
StartsAt(s, i, p) ==
    i + Len(p) - 1 <= Len(s) /\ SubSeq(s, i, i + Len(p) - 1) = p

\* s.find(p, i): the first position >= i where p occurs, 0 when there is none.
Find(s, p, i) ==
    LET hits == {k \in i..(Len(s) - Len(p) + 1) : StartsAt(s, k, p)}
    IN  IF hits = {} THEN 0 ELSE Min(hits)

\* p in s
Contains(s, p) == Find(s, p, 1) # 0

\* s.lstrip()
LStrip(s) ==
    LET keep == {k \in 1..Len(s) : ~IsSpace(s[k])}
    IN  IF keep = {} THEN <<>> ELSE From(s, Min(keep))

\* s.strip()
Strip(s) ==
    LET keep == {k \in 1..Len(s) : ~IsSpace(s[k])}
    IN  IF keep = {} THEN <<>> ELSE SubSeq(s, Min(keep), Max(keep))

\* The position among cuts that is the first one at or after mid, the last of
\* all when there is none.
Pivot(cuts, mid) ==
    Eager({j \in cuts : j >= mid},
          LAMBDA after : IF after = {} THEN Max(cuts) ELSE Min(after))

\* The parts of s[lo..hi], cut at the positions cuts (all in lo..hi) and
\* without the characters at them.
RECURSIVE SplitAt(_, _, _, _)
SplitAt(s, cuts, lo, hi) ==
    IF cuts = {} THEN <<SubSeq(s, lo, hi)>>
    ELSE Eager(Pivot(cuts, (lo + hi) \div 2),
               LAMBDA k :
                   Eager({j \in cuts : j < k},
                         LAMBDA left : SplitAt(s, left, lo, k - 1))
                       \o Eager({j \in cuts : j > k},
                                LAMBDA right : SplitAt(s, right, k + 1, hi)))

\* s.split(sep) for a one-character sep: always at least one part.
Split(s, sep) ==
    Eager({k \in 1..Len(s) : s[k] = sep},
          LAMBDA cuts : SplitAt(s, cuts, 1, Len(s)))

\* sep.join(parts) for a one-character sep.
RECURSIVE Join(_, _)
Join(parts, sep) ==
    IF Len(parts) = 0 THEN <<>>
    ELSE IF Len(parts) = 1 THEN parts[1]
    ELSE parts[1] \o <<sep>>
             \o Eager(Tail(parts), LAMBDA rest : Join(rest, sep))

\* s.replace(p, r): the occurrences of a non-empty p, left to right.
RECURSIVE Replace(_, _, _)
Replace(s, p, r) ==
    IF Find(s, p, 1) = 0 THEN s
    ELSE SubSeq(s, 1, Find(s, p, 1) - 1) \o r
             \o Eager(From(s, Find(s, p, 1) + Len(p)),
                      LAMBDA rest : Replace(rest, p, r))

\* s.split()[0] of a string that holds a non-space character.
FirstWord(s) ==
    LET t == LStrip(s)
        ends == {k \in 1..Len(t) : IsSpace(t[k])}
    IN  IF ends = {} THEN t ELSE SubSeq(t, 1, Min(ends) - 1)

\* The length of the run of characters satisfying Cls that starts at s[i].
RunLen(s, i, Cls(_)) ==
    LET stop == {k \in i..Len(s) : ~Cls(s[k])}
    IN  IF stop = {} THEN Len(s) - i + 1 ELSE Min(stop) - i

NotSpace(c) == ~IsSpace(c)

\* re.split(r'\s{2,}', s, maxsplit=1): split at the first run of two or more
\* whitespace characters, which is removed whole.
SplitOnSpaces(s) ==
    LET hits == {k \in 1..(Len(s) - 1) : IsSpace(s[k]) /\ IsSpace(s[k + 1])}
    IN  IF hits = {} THEN <<s>>
        ELSE LET k == Min(hits)
                 n == RunLen(s, k, IsSpace)
             IN  <<SubSeq(s, 1, k - 1), From(s, k + n)>>


(***************************************************************************)
(* CLIScanner.parse_commander_help                                         *)
(***************************************************************************)

S_Usage == <<"U", "s", "a", "g", "e", ":">>

S_Options == <<"O", "p", "t", "i", "o", "n", "s", ":">>

S_Commands == <<"C", "o", "m", "m", "a", "n", "d", "s", ":">>

S_Arguments == <<"A", "r", "g", "u", "m", "e", "n", "t", "s", ":">>

S_Additional == <<"A", "d", "d", "i", "t", "i", "o", "n", "a", "l">>

NotCommaSpace(c) == c # "," /\ ~IsSpace(c)

NotGt(c) == c # ">"

\* The end of the option pattern, \s+(.*), with u whitespace characters at
\* line[f]: the long flag line[q..f-1] and the rest of the line, or NoMatch.
OptionRest(line, q, f, u) ==
    IF u >= 1
    THEN [matched |-> TRUE, long |-> SubSeq(line, q, f - 1),
          rest |-> From(line, f + u)]
    ELSE NoMatch

\* The optional group (?:\s+<[^>]+>)? at line[e], where v whitespace characters
\* and then g characters other than ">" start, and the end of the pattern: with
\* the group when it and the end match, else without it.
OptionValue(line, q, e, v, g) ==
    IF /\ v >= 1
       /\ StartsAt(line, e + v, <<"<">>)
       /\ g >= 1
       /\ StartsAt(line, e + v + g + 1, <<">">>)
       /\ RunLen(line, e + v + g + 2, IsSpace) >= 1
    THEN OptionRest(line, q, e + v + g + 2,
                    RunLen(line, e + v + g + 2, IsSpace))
    ELSE OptionRest(line, q, e, v)

\* What follows --[^\s]+, which ends before line[e], where v whitespace
\* characters start.
OptionSpaces(line, q, e, v) ==
    Eager(RunLen(line, e + v + 1, NotGt),
          LAMBDA g : OptionValue(line, q, e, v, g))

\* What follows "--" at line[q], where n characters that are not whitespace
\* start.
OptionLong(line, q, n) ==
    IF n >= 1
    THEN Eager(RunLen(line, q + 2 + n, IsSpace),
               LAMBDA v : OptionSpaces(line, q, q + 2 + n, v))
    ELSE NoMatch

\* (--[^\s]+(?:\s+<[^>]+>)?)\s+(.*) matched at line[q]: the long flag and the
\* rest of the line, or NoMatch.
OptionLongAt(line, q) ==
    IF StartsAt(line, q, <<"-", "-">>)
    THEN Eager(RunLen(line, q + 2, NotSpace),
               LAMBDA n : OptionLong(line, q, n))
    ELSE NoMatch

\* (?:,\s+)? and the long flag after it, at line[q].
OptionAfterComma(line, q) ==
    IF StartsAt(line, q, <<",">>)
    THEN Eager(RunLen(line, q + 1, IsSpace),
               LAMBDA w : IF w >= 1 THEN OptionLongAt(line, q + 1 + w)
                          ELSE NoMatch)
    ELSE NoMatch

\* The alternatives of a backtracking match, in the order they are tried.
FirstMatch(first, second) ==
    Eager(first, LAMBDA m : IF m # NoMatch THEN m ELSE second)

\* The match with the short flag line[p..q-1], from the match of what follows.
OptionWithShort(line, p, q, tail) ==
    Eager(tail,
          LAMBDA m : IF m = NoMatch THEN NoMatch
                     ELSE [matched |-> TRUE, short |-> SubSeq(line, p, q - 1),
                           long |-> m.long, rest |-> m.rest])

\* (-[^,\s]+)?(?:,\s+)? with a short flag of 1 + k characters at line[p], then
\* the long flag: the match, or NoMatch.
OptionShortAt(line, p, k) ==
    OptionWithShort(line, p, p + 1 + k,
                    FirstMatch(OptionAfterComma(line, p + 1 + k),
                               OptionLongAt(line, p + 1 + k)))

\* The lengths of [^,\s]+ in the short flag at line[p] with which the pattern
\* matches.
OptionShorts(line, p) ==
    {k \in 1..RunLen(line, p + 1, NotCommaSpace) :
        OptionShortAt(line, p, k) # NoMatch}

\* The first match in the order the backtracking tries them: the longest short
\* flag first, no short flag last.
OptionFrom(line, p, ks) ==
    IF ks # {} THEN OptionShortAt(line, p, Max(ks))
    ELSE OptionWithShort(line, p, p, OptionLongAt(line, p))

\* The pattern after \s+, which matched w characters.
OptionAfterSpaces(line, w) ==
    IF w >= 1 /\ StartsAt(line, w + 1, <<"-">>)
    THEN Eager(OptionShorts(line, w + 1),
               LAMBDA ks : OptionFrom(line, w + 1, ks))
    ELSE NoMatch

\* re.match(r'\s+(-[^,\s]+)?(?:,\s+)?(--[^\s]+(?:\s+<[^>]+>)?)\s+(.*)', line):
\* groups 1 (short), 2 (long) and 3 (rest), or NoMatch.
OptionMatch(line) ==
    Eager(RunLen(line, 1, IsSpace), LAMBDA w : OptionAfterSpaces(line, w))

\* result["options"].append(...) if option_match.
CommanderOption(st, option_match) ==
    IF option_match # NoMatch
    THEN [st EXCEPT !.result.options =
             Append(@, [short |-> option_match.short,
                        long |-> option_match.long,
                        description |-> Strip(option_match.rest)])]
    ELSE st

\* result["commands"].append(...) if len(parts) == 2.
CommanderCommand(st, parts) ==
    IF Len(parts) = 2
    THEN [st EXCEPT !.result.commands =
             Append(@, [name |-> FirstWord(Strip(parts[1])),
                        signature |-> Strip(parts[1]),
                        description |-> Strip(parts[2])])]
    ELSE st

\* The loop iteration without the `not result["description"]` test: every
\* qualifying line overwrites the description.
CommanderStrippedOverwrite(st, line, stripped) ==
    IF StartsWith(stripped, S_Usage)
    THEN [st EXCEPT !.result.usage = Strip(Replace(line, S_Usage, <<>>))]
    ELSE IF Contains(line, S_Options)
    THEN [st EXCEPT !.current_section = "options"]
    ELSE IF Contains(line, S_Commands) \/ Contains(line, S_Arguments)
    THEN [st EXCEPT !.current_section = "commands"]
    ELSE IF stripped # <<>> /\ ~StartsWith(line, <<" ">>)
            /\ st.current_section = None
    THEN IF st.result.usage # <<>>
         THEN [st EXCEPT !.result.description = stripped]
         ELSE st
    ELSE IF st.current_section = "options" /\ StartsWith(stripped, <<"-">>)
    THEN Eager(OptionMatch(line), LAMBDA m : CommanderOption(st, m))
    ELSE IF st.current_section = "commands" /\ stripped # <<>>
            /\ ~StartsWith(stripped, S_Additional)
    THEN IF ~StartsWith(stripped, <<"-">>)
         THEN Eager(SplitOnSpaces(stripped),
                    LAMBDA parts : CommanderCommand(st, parts))
         ELSE st
    ELSE st

\* The loop iteration with a section of its own for 'Arguments:', whose
\* entries are not commands.
CommanderStrippedCommandsOnly(st, line, stripped) ==
    IF StartsWith(stripped, S_Usage)
    THEN [st EXCEPT !.result.usage = Strip(Replace(line, S_Usage, <<>>))]
    ELSE IF Contains(line, S_Options)
    THEN [st EXCEPT !.current_section = "options"]
    ELSE IF Contains(line, S_Commands)
    THEN [st EXCEPT !.current_section = "commands"]
    ELSE IF Contains(line, S_Arguments)
    THEN [st EXCEPT !.current_section = "arguments"]
    ELSE IF stripped # <<>> /\ ~StartsWith(line, <<" ">>)
            /\ st.current_section = None
    THEN IF st.result.usage # <<>> /\ st.result.description = <<>>
         THEN [st EXCEPT !.result.description = stripped]
         ELSE st
    ELSE IF st.current_section = "options" /\ StartsWith(stripped, <<"-">>)
    THEN Eager(OptionMatch(line), LAMBDA m : CommanderOption(st, m))
    ELSE IF st.current_section = "commands" /\ stripped # <<>>
            /\ ~StartsWith(stripped, S_Additional)
    THEN IF ~StartsWith(stripped, <<"-">>)
         THEN Eager(SplitOnSpaces(stripped),
                    LAMBDA parts : CommanderCommand(st, parts))
         ELSE st
    ELSE st

\* One iteration of the loop over the lines, with stripped = line.strip(): the
\* state is the result dict and current_section (None, "options", "commands").
CommanderStripped(st, line, stripped) ==
    IF StartsWith(stripped, S_Usage)
    THEN [st EXCEPT !.result.usage = Strip(Replace(line, S_Usage, <<>>))]
    ELSE IF Contains(line, S_Options)
    THEN [st EXCEPT !.current_section = "options"]
    ELSE IF Contains(line, S_Commands) \/ Contains(line, S_Arguments)
    THEN [st EXCEPT !.current_section = "commands"]
    ELSE IF stripped # <<>> /\ ~StartsWith(line, <<" ">>)
            /\ st.current_section = None
    THEN IF st.result.usage # <<>> /\ st.result.description = <<>>
         THEN [st EXCEPT !.result.description = stripped]
         ELSE st
    ELSE IF st.current_section = "options" /\ StartsWith(stripped, <<"-">>)
    THEN Eager(OptionMatch(line), LAMBDA m : CommanderOption(st, m))
    ELSE IF st.current_section = "commands" /\ stripped # <<>>
            /\ ~StartsWith(stripped, S_Additional)
    THEN IF ~StartsWith(stripped, <<"-">>)
         THEN Eager(SplitOnSpaces(stripped),
                    LAMBDA parts : CommanderCommand(st, parts))
         ELSE st
    ELSE st

CommanderLine(st, line) ==
    Eager(Strip(line), LAMBDA stripped : CommanderStripped(st, line, stripped))

\* for i, line in enumerate(lines), from the line of index i on.
RECURSIVE CommanderLines(_, _, _)
CommanderLines(st, lines, i) ==
    IF i > Len(lines) THEN st
    ELSE Eager(CommanderLine(st, lines[i]),
               LAMBDA next : CommanderLines(next, lines, i + 1))

parse_commander_help(help_text) ==
    Eager(Split(help_text, "\n"),
          LAMBDA lines :
              CommanderLines(
                  [result |-> [usage |-> <<>>, description |-> <<>>,
                               options |-> <<>>, commands |-> <<>>],
                   current_section |-> None],
                  lines, 1).result)

(***************************************************************************)
(* CLIScanner.parse_custom_help                                            *)
(***************************************************************************)

S_Default == <<"(", "d", "e", "f", "a", "u", "l", "t", ":">>

UpperOrSpace(c) == c \in UpperCase \/ IsSpace(c)

\* re.match(r'^\s{2}([A-Z][A-Z\s]+?)\s*$', line): group 1, or NoMatch.  The lazy
\* group ends at the last character that is not whitespace, and holds at least
\* two characters.
SectionMatch(line) ==
    LET keep == {k \in 4..Len(line) : ~IsSpace(line[k])}
        j == IF keep = {} THEN 4 ELSE Max(keep)
    IN  IF /\ Len(line) >= 4
           /\ IsSpace(line[1])
           /\ IsSpace(line[2])
           /\ line[3] \in UpperCase
           /\ \A k \in 4..Len(line) : UpperOrSpace(line[k])
        THEN [matched |-> TRUE, group1 |-> SubSeq(line, 3, j)]
        ELSE NoMatch

\* re.match(r'^\s+(--.+?)\s{2,}', line): group 1, or NoMatch.  The lazy group
\* ends before the first two whitespace characters that follow "--" and one
\* more character.
CustomOptionMatch(line) ==
    LET w == RunLen(line, 1, IsSpace)
        p == w + 1
        ends == {j \in (p + 3)..(Len(line) - 1) :
                    IsSpace(line[j]) /\ IsSpace(line[j + 1])}
    IN  IF w >= 1 /\ StartsAt(line, p, <<"-", "-">>) /\ ends # {}
        THEN [matched |-> TRUE, group1 |-> SubSeq(line, p, Min(ends) - 1)]
        ELSE NoMatch

\* re.search(open + r'\s*([^)]+)\)' , line) for a literal open, then
\* group(1).strip(); NoText when the search finds nothing.  [^)]+ may take the
\* whitespace \s* gives back, so the match needs one character before the ")".
ParenValue(line, open) ==
    LET n == Len(open)
        starts == {k \in 1..Len(line) :
                      /\ StartsAt(line, k, open)
                      /\ Find(line, <<")">>, k + n) > k + n}
        k0 == Min(starts)
    IN  IF starts = {} THEN NoText
        ELSE Strip(SubSeq(line, k0 + n, Find(line, <<")">>, k0 + n) - 1))

\* re.match(r'^\s{10,}(.+)', line): group 1, or NoMatch.
DescMatch(line) ==
    LET w == RunLen(line, 1, IsSpace)
    IN  IF w >= 10 /\ w < Len(line)
        THEN [matched |-> TRUE, group1 |-> From(line, w + 1)]
        ELSE IF w >= 11 /\ w = Len(line)
        THEN [matched |-> TRUE, group1 |-> <<line[w]>>]
        ELSE NoMatch

\* No current option: current_option is None.
NoOption == [section |-> 0, option |-> 0]

\* current_section = {"name": ..., "options": []}, appended to the sections.
\* current_section is the dict last appended to result["sections"], so it is
\* that list's last index (0: None).  current_option is left as it is.
CustomSection(st, section_match) ==
    [st EXCEPT
        !.result.sections =
            Append(@, [name |-> Strip(section_match.group1), options |-> <<>>]),
        !.current_section = Len(st.result.sections) + 1]

\* The option dict with the text that follows the flag on the option line as
\* its description.
CustomOptionInline(st, line, option_match) ==
    [st EXCEPT
        !.result.sections[st.current_section].options =
            Append(@, [flag |-> Strip(option_match.group1),
                       default |-> ParenValue(line, S_Default),
                       env |-> ParenValue(line, <<"(", "$">>),
                       description |->
                           Strip(From(line,
                               Find(line, option_match.group1, 1)
                                   + Len(option_match.group1)))]),
        !.current_option =
            [section |-> st.current_section,
             option |->
                 Len(st.result.sections[st.current_section].options) + 1]]

\* current_option = {...}, appended to current_section["options"].
\* current_option is a reference to an option dict inside a section, so it is
\* that dict's place: its section's index and its index there.
CustomOption(st, line, option_match) ==
    [st EXCEPT
        !.result.sections[st.current_section].options =
            Append(@, [flag |-> Strip(option_match.group1),
                       default |-> ParenValue(line, S_Default),
                       env |-> ParenValue(line, <<"(", "$">>),
                       description |-> <<>>]),
        !.current_option =
            [section |-> st.current_section,
             option |->
                 Len(st.result.sections[st.current_section].options) + 1]]

\* The assignment guarded by an empty description: the first description line
\* is kept.
CustomDescriptionFirst(st, desc_match) ==
    IF /\ desc_match # NoMatch
       /\ st.result.sections[st.current_option.section]
              .options[st.current_option.option].description = <<>>
    THEN [st EXCEPT
             !.result.sections[st.current_option.section]
                 .options[st.current_option.option].description =
                     Strip(desc_match.group1)]
    ELSE st

\* current_option["description"] = desc_match.group(1).strip() if desc_match.
CustomDescription(st, desc_match) ==
    IF desc_match # NoMatch
    THEN [st EXCEPT
             !.result.sections[st.current_option.section]
                 .options[st.current_option.option].description =
                     Strip(desc_match.group1)]
    ELSE st

\* The loop body after the section header check, inside a section.
CustomInSection(st, line, option_match) ==
    IF option_match # NoMatch
    THEN CustomOption(st, line, option_match)
    ELSE IF st.current_option # NoOption /\ Strip(line) # <<>>
            /\ ~StartsWith(Strip(line), <<"-", "-">>)
    THEN Eager(DescMatch(line), LAMBDA m : CustomDescription(st, m))
    ELSE st

\* One iteration of the loop over the lines.
CustomMatched(st, line, section_match) ==
    IF section_match # NoMatch /\ ~StartsWith(Strip(line), <<"-">>)
    THEN CustomSection(st, section_match)
    ELSE IF st.current_section # 0
    THEN Eager(CustomOptionMatch(line),
               LAMBDA m : CustomInSection(st, line, m))
    ELSE st

CustomLine(st, line) ==
    Eager(SectionMatch(line), LAMBDA m : CustomMatched(st, line, m))

\* for line in lines, from the line of index i on.
RECURSIVE CustomLines(_, _, _)
CustomLines(st, lines, i) ==
    IF i > Len(lines) THEN st
    ELSE Eager(CustomLine(st, lines[i]),
               LAMBDA next : CustomLines(next, lines, i + 1))

parse_custom_help(help_text) ==
    Eager(Split(help_text, "\n"),
          LAMBDA lines :
              CustomLines(
                  [result |-> [usage |-> <<>>, description |-> <<>>,
                               sections |-> <<>>],
                   current_section |-> 0,
                   current_option |-> NoOption],
                  lines, 1).result)

(***************************************************************************)
(* The target program: what the probed command line tool prints.           *)
(***************************************************************************)

\* 'Usage: t\ntool\nOptions:\n  -h, --help  show\nCommands:\n  a [x]  A\n  b  B\n  help  H\n'
HelpAB ==
    <<
    "U", "s", "a", "g", "e", ":", " ", "t", "\n", "t", "o", "o", "l", "\n",
    "O", "p", "t", "i", "o", "n", "s", ":", "\n", " ", " ", "-", "h", ",",
    " ", "-", "-", "h", "e", "l", "p", " ", " ", "s", "h", "o", "w", "\n",
    "C", "o", "m", "m", "a", "n", "d", "s", ":", "\n", " ", " ", "a", " ",
    "[", "x", "]", " ", " ", "A", "\n", " ", " ", "b", " ", " ", "B", "\n",
    " ", " ", "h", "e", "l", "p", " ", " ", "H", "\n"
    >>

\* '\nUsage: t\ntool\nOptions:\n  -h, --help  show\nCommands:\n  a [x]  A\n  b  B\n  help  H  '
HelpABPadded ==
    <<
    "\n", "U", "s", "a", "g", "e", ":", " ", "t", "\n", "t", "o", "o", "l",
    "\n", "O", "p", "t", "i", "o", "n", "s", ":", "\n", " ", " ", "-", "h",
    ",", " ", "-", "-", "h", "e", "l", "p", " ", " ", "s", "h", "o", "w",
    "\n", "C", "o", "m", "m", "a", "n", "d", "s", ":", "\n", " ", " ", "a",
    " ", "[", "x", "]", " ", " ", "A", "\n", " ", " ", "b", " ", " ", "B",
    "\n", " ", " ", "h", "e", "l", "p", " ", " ", "H", " ", " "
    >>

\* 'Usage: t a\nCommands:\n  b  B\n  b  C\n'
HelpBB ==
    <<
    "U", "s", "a", "g", "e", ":", " ", "t", " ", "a", "\n", "C", "o", "m",
    "m", "a", "n", "d", "s", ":", "\n", " ", " ", "b", " ", " ", "B", "\n",
    " ", " ", "b", " ", " ", "C", "\n"
    >>

\* 'Usage: t b\nCommands:\n  a  A\n'
HelpA ==
    <<
    "U", "s", "a", "g", "e", ":", " ", "t", " ", "b", "\n", "C", "o", "m",
    "m", "a", "n", "d", "s", ":", "\n", " ", " ", "a", " ", " ", "A", "\n"
    >>

\* 'Usage: t a\nCommands:\n  b  B\n'
HelpB ==
    <<
    "U", "s", "a", "g", "e", ":", " ", "t", " ", "a", "\n", "C", "o", "m",
    "m", "a", "n", "d", "s", ":", "\n", " ", " ", "b", " ", " ", "B", "\n"
    >>

\* 'TypeError: Do not know how to serialize a BigInt\n    at JSON.stringify (<anonymous>)'
ErrBigInt ==
    <<
    "T", "y", "p", "e", "E", "r", "r", "o", "r", ":", " ", "D", "o", " ",
    "n", "o", "t", " ", "k", "n", "o", "w", " ", "h", "o", "w", " ", "t",
    "o", " ", "s", "e", "r", "i", "a", "l", "i", "z", "e", " ", "a", " ",
    "B", "i", "g", "I", "n", "t", "\n", " ", " ", " ", " ", "a", "t", " ",
    "J", "S", "O", "N", ".", "s", "t", "r", "i", "n", "g", "i", "f", "y",
    " ", "(", "<", "a", "n", "o", "n", "y", "m", "o", "u", "s", ">", ")"
    >>

\* '    at JSON.stringify (<anonymous>)'
ErrStringify ==
    <<
    " ", " ", " ", " ", "a", "t", " ", "J", "S", "O", "N", ".", "s", "t",
    "r", "i", "n", "g", "i", "f", "y", " ", "(", "<", "a", "n", "o", "n",
    "y", "m", "o", "u", "s", ">", ")"
    >>

\* 'Error: unknown command'
ErrGeneric ==
    <<
    "E", "r", "r", "o", "r", ":", " ", "u", "n", "k", "n", "o", "w", "n",
    " ", "c", "o", "m", "m", "a", "n", "d"
    >>

\* '\x1b[1m  MISC\x1b[0m\n    --port <n>  (default: 8080) ($PORT)\n          the port\n'
HelpCustom ==
    <<
    "ESC", "[", "1", "m", " ", " ", "M", "I", "S", "C", "ESC", "[", "0", "m",
    "\n", " ", " ", " ", " ", "-", "-", "p", "o", "r", "t", " ", "<", "n",
    ">", " ", " ", "(", "d", "e", "f", "a", "u", "l", "t", ":", " ", "8",
    "0", "8", "0", ")", " ", "(", "$", "P", "O", "R", "T", ")", "\n", " ",
    " ", " ", " ", " ", " ", " ", " ", " ", " ", "t", "h", "e", " ", "p",
    "o", "r", "t", "\n"
    >>

\* 'Usage: t a [x]\nArguments:\n  x  the x\n'
HelpArgs ==
    <<
    "U", "s", "a", "g", "e", ":", " ", "t", " ", "a", " ", "[", "x", "]",
    "\n", "A", "r", "g", "u", "m", "e", "n", "t", "s", ":", "\n", " ", " ",
    "x", " ", " ", "t", "h", "e", " ", "x", "\n"
    >>

\* 'Usage: t [b]\nArguments:\n  b  the b\nCommands:\n  a  A\n'
HelpArgsCommands ==
    <<
    "U", "s", "a", "g", "e", ":", " ", "t", " ", "[", "b", "]", "\n", "A",
    "r", "g", "u", "m", "e", "n", "t", "s", ":", "\n", " ", " ", "b", " ",
    " ", "t", "h", "e", " ", "b", "\n", "C", "o", "m", "m", "a", "n", "d",
    "s", ":", "\n", " ", " ", "a", " ", " ", "A", "\n"
    >>

\* 'hello'
HelpRaw ==
    <<
    "h", "e", "l", "l", "o"
    >>

\* What one invocation of the target program can end in: a timeout or a failure
\* to start (NoText), no output at all, or one of the texts above.
Outputs ==
    {NoText, <<>>, HelpAB, HelpABPadded, HelpBB, HelpA, HelpB, ErrBigInt,
     ErrStringify, ErrGeneric, HelpCustom, HelpRaw, HelpArgs,
     HelpArgsCommands}

\* The --base-command of main(), and the command names the texts above list.
BaseCommands == {<<"t">>}

Tokens == BaseCommands \cup {<<"a">>, <<"b">>}

\* A target program answers "<path> --help" by the last command of the path (as
\* a program does that ignores the commands before it): the programs whose help
\* refers back to a command above it are the ones the guards of scan_command
\* are for.
Programs == [Tokens -> Outputs]

(***************************************************************************)
(* CLIScanner: the state.                                                  *)
(***************************************************************************)

VARIABLES
    program,        \* the target program: its output for each command
    base_command,   \* self.base_command
    visited,        \* self.visited: the ' '.join of every path entered
    stack,          \* the activations of scan_command, the innermost last
    invocations,    \* the argument lists run_command was called with, per scan
    returned,       \* the last return of scan_command: its arguments and value
    scan_result,    \* what the last scan() returned
    scans,          \* the number of scan() calls made
    data,           \* self.data of the MarkdownGenerator
    config,         \* self.config of the MarkdownGenerator
    markdown,       \* what generate() returned
    template,       \* the module of the --template file main() was given
    generator,      \* the renderer the MarkdownGenerator object belongs to
    generations,    \* the number of generate() calls made on the object
    parser_text,    \* the help_text a help parser was called with
    parse_result,   \* what the help parser returned
    heading_text,   \* the heading text an anchor is made for
    slug            \* the last call of slugify: its renderer, text and value

scanner_vars ==
    <<program, base_command, visited, stack, invocations, returned,
      scan_result, scans>>

generator_vars ==
    <<data, config, markdown, template, generator, generations>>

\* The argument and the result of a single call of a parser or of slugify.
function_vars == <<parser_text, parse_result, heading_text, slug>>

vars == <<scanner_vars, generator_vars, function_vars>>

\* The depth limit of scan_command.
MaxDepth == 5

\* The length of error_preview.
PreviewLen == 200

\* The number of scan() calls a behaviour makes.
MaxScans == 2

S_HelpFlag == <<"-", "-", "h", "e", "l", "p">>

S_Help == <<"h", "e", "l", "p">>

S_BigInt == <<"B", "i", "g", "I", "n", "t">>

S_Date == <<"n", "o", "w">>

error_markers ==
    <<<<"E", "R", "R", "O", "R", ":", " ", "c", "l", "i", " ", "E", "r",
        "r", "o", "r", " ", "i", "n", " ", "c", "o", "m", "m", "a", "n",
        "d", " ", "e", "x", "e", "c", "u", "t", "i", "o", "n">>,
      <<"T", "y", "p", "e", "E", "r", "r", "o", "r", ":", " ", "D", "o",
        " ", "n", "o", "t", " ", "k", "n", "o", "w", " ", "h", "o", "w",
        " ", "t", "o", " ", "s", "e", "r", "i", "a", "l", "i", "z", "e">>,
      <<"T", "y", "p", "e", "E", "r", "r", "o", "r", ":">>,
      <<"E", "r", "r", "o", "r", ":">>,
      <<"a", "t", " ", "J", "S", "O", "N", ".", "s", "t", "r", "i", "n",
        "g", "i", "f", "y">>>>

NoReturn == [none |-> TRUE]

NoResult == [none |-> TRUE]

NoDocument == [none |-> TRUE]

NoConfig == [none |-> TRUE]

\* main() was given no --template: config = None.
NoTemplate == [none |-> TRUE]

\* No call of a parser has returned.
NoParse == [none |-> TRUE]

\* No call of slugify has returned.
NoSlug == [none |-> TRUE]

(***************************************************************************)
(* CLIScanner.run_command                                                  *)
(***************************************************************************)

DigitOrSemicolon(c) == c \in Digits \/ c = ";"

\* len of the match of \x1b\[[0-9;]*[a-zA-Z] at s[k], 0 when there is none.
AnsiAt(s, k) ==
    LET r == RunLen(s, k + 2, DigitOrSemicolon)
    IN  IF /\ StartsAt(s, k, <<"ESC", "[">>)
           /\ k + 2 + r <= Len(s)
           /\ s[k + 2 + r] \in LowerCase \cup UpperCase
        THEN r + 3
        ELSE 0

\* The first position of s where the pattern matches, 0 when there is none.
AnsiFind(s) ==
    LET hits == {k \in 1..Len(s) : AnsiAt(s, k) > 0}
    IN  IF hits = {} THEN 0 ELSE Min(hits)

\* s without the first match, which is at s[k], and the matches after it.
RECURSIVE StripAnsiFrom(_, _)
StripAnsiFrom(s, k) ==
    IF k = 0 THEN s
    ELSE SubSeq(s, 1, k - 1)
             \o Eager(From(s, k + AnsiAt(s, k)),
                      LAMBDA rest : StripAnsiFrom(rest, AnsiFind(rest)))

\* ansi_pattern.sub('', output)
StripAnsi(s) == StripAnsiFrom(s, AnsiFind(s))

\* subprocess.run(cmd, ...): stdout + stderr of the target program for the
\* command before the trailing --help, NoText when it times out or cannot run.
Subprocess(prog, cmd) == prog[cmd[Len(cmd) - 1]]

\* ansi_pattern.sub('', output) of each output a target program gives, computed
\* once.
Cleaned == [output \in Outputs \ {NoText} |-> StripAnsi(output)]

run_command(prog, cmd) ==
    IF Subprocess(prog, cmd) = NoText THEN NoText
    ELSE Cleaned[Subprocess(prog, cmd)]

\* The texts run_command returns.
HelpTexts == {Cleaned[output] : output \in Outputs \ {NoText}}

(***************************************************************************)
(* CLIScanner.scan_command                                                 *)
(***************************************************************************)

\* ' '.join(cmd_path)
cmd_str(cmd_path) == Join(cmd_path, " ")

\* The visited check left out.
AlreadyVisitedNever(cmd_path, vis) == FALSE

\* cmd_str in self.visited
AlreadyVisited(cmd_path, vis) == cmd_str(cmd_path) \in vis

\* The depth limit off by one.
DepthExceededLate(depth) == depth > MaxDepth + 1

\* depth > 5
DepthExceeded(depth) == depth > MaxDepth

\* The test for None only: an empty text passes.
NoHelpOutputNone(help_output) == help_output = NoText

\* not help_output
NoHelpOutput(help_output) == help_output = NoText \/ help_output = <<>>

\* The comparison with the parent's help without the strip().
SameAsParentExact(help_output, parent_help) ==
    /\ parent_help # NoText
    /\ parent_help # <<>>
    /\ help_output = parent_help

\* parent_help and help_output.strip() == parent_help.strip()
SameAsParent(help_output, parent_help) ==
    /\ parent_help # NoText
    /\ parent_help # <<>>
    /\ Strip(help_output) = Strip(parent_help)

\* any(marker in help_output for marker in error_markers)
HasErrorMarker(help_output) ==
    \E i \in 1..Len(error_markers) : Contains(help_output, error_markers[i])

\* "bigint_serialization" if "BigInt" in help_output else "unknown"
ErrorType(help_output) ==
    IF Contains(help_output, S_BigInt) THEN "bigint_serialization" ELSE "unknown"

\* help_output[:200]
Preview(help_output) ==
    SubSeq(help_output, 1, IF Len(help_output) < PreviewLen
                           THEN Len(help_output) ELSE PreviewLen)

\* 'Usage:' in help_output and 'Commands:' in help_output
IsCommander(help_output) ==
    Contains(help_output, S_Usage) /\ Contains(help_output, S_Commands)

\* re.search(r'^\s{2}[A-Z][A-Z\s]+$', help_output, re.MULTILINE): ^ is the start
\* of a line, $ the end of one, and \s also matches the line breaks between.
IsCustom(help_output) ==
    \E i \in 1..Len(help_output) :
        /\ i = 1 \/ help_output[i - 1] = "\n"
        /\ i + 3 <= Len(help_output)
        /\ IsSpace(help_output[i])
        /\ IsSpace(help_output[i + 1])
        /\ help_output[i + 2] \in UpperCase
        /\ \E j \in (i + 3)..Len(help_output) :
              /\ \A k \in (i + 3)..j : UpperOrSpace(help_output[k])
              /\ j = Len(help_output) \/ help_output[j + 1] = "\n"

\* self.parse_commander_help(help_output) of each text run_command returns,
\* computed once.
CommanderParsed ==
    [help_output \in HelpTexts |-> parse_commander_help(help_output)]

\* self.parse_custom_help(help_output) of each text run_command returns, computed
\* once.
CustomParsed ==
    [help_output \in HelpTexts |-> parse_custom_help(help_output)]

\* An activation of scan_command that has parsed a Commander help and is in its
\* loop over parsed["commands"], before the command of index i.
Frame(cmd_path, depth, parent_help, help_output, parsed) ==
    [cmd_path |-> cmd_path, depth |-> depth, parent_help |-> parent_help,
     pc |-> "loop", help_output |-> help_output, parsed |-> parsed,
     i |-> 1, subcommands |-> <<>>]

\* An activation that has just been called.
Called(cmd_path, depth, parent_help) ==
    [cmd_path |-> cmd_path, depth |-> depth, parent_help |-> parent_help,
     pc |-> "entry", help_output |-> NoText, parsed |-> [format |-> "none"],
     i |-> 0, subcommands |-> <<>>]

\* An error node that carries an (empty) subcommands dict.
ErrorNodeWithChildren(error) == [error |-> error, subcommands |-> <<>>]

\* {"error": error}
ErrorNode(error) == [error |-> error]

\* {"error": "command_execution_error", "error_type": ..., "error_preview": ...}
ExecutionError(help_output) ==
    ErrorNode("command_execution_error")
        @@ [error_type |-> ErrorType(help_output),
            error_preview |-> Preview(help_output)]

\* A return of scan_command with value v: marked says whether the path was added
\* to visited, ran the argument lists given to run_command.
Returns(v, cmd_path, vis, marked, ran) ==
    [done |-> TRUE, value |-> v,
     visited |-> IF marked THEN vis \cup {cmd_str(cmd_path)} ELSE vis,
     ran |-> ran]

\* scan_command with one retry of run_command when it gave no output.
ClassifyRetry(cmd_path, depth, parent_help, vis, cmd, help_output) ==
    IF NoHelpOutput(help_output)
    THEN Returns(ErrorNode("no_help_output"), cmd_path, vis, TRUE,
                 <<cmd, cmd>>)
    ELSE IF SameAsParent(help_output, parent_help)
    THEN Returns(ErrorNode("invalid_subcommand"), cmd_path, vis, TRUE, <<cmd>>)
    ELSE IF HasErrorMarker(help_output)
    THEN Returns(ExecutionError(help_output), cmd_path, vis, TRUE, <<cmd>>)
    ELSE IF IsCommander(help_output)
    THEN [done |-> FALSE,
          frame |-> Frame(cmd_path, depth, parent_help, help_output,
                          CommanderParsed[help_output]
                              @@ [format |-> "commander"]),
          visited |-> vis \cup {cmd_str(cmd_path)},
          ran |-> <<cmd>>]
    ELSE IF IsCustom(help_output)
    THEN Returns(CustomParsed[help_output] @@ [format |-> "custom"],
                 cmd_path, vis, TRUE, <<cmd>>)
    ELSE Returns([format |-> "raw", raw_help |-> help_output],
                 cmd_path, vis, TRUE, <<cmd>>)

\* scan_command after run_command returned help_output, to its first recursive
\* call or, when there is none, its return.
Classify(cmd_path, depth, parent_help, vis, cmd, help_output) ==
    IF NoHelpOutput(help_output)
    THEN Returns(ErrorNode("no_help_output"), cmd_path, vis, TRUE, <<cmd>>)
    ELSE IF SameAsParent(help_output, parent_help)
    THEN Returns(ErrorNode("invalid_subcommand"), cmd_path, vis, TRUE, <<cmd>>)
    ELSE IF HasErrorMarker(help_output)
    THEN Returns(ExecutionError(help_output), cmd_path, vis, TRUE, <<cmd>>)
    ELSE IF IsCommander(help_output)
    THEN [done |-> FALSE,
          frame |-> Frame(cmd_path, depth, parent_help, help_output,
                          CommanderParsed[help_output]
                              @@ [format |-> "commander"]),
          visited |-> vis \cup {cmd_str(cmd_path)},
          ran |-> <<cmd>>]
    ELSE IF IsCustom(help_output)
    THEN Returns(CustomParsed[help_output] @@ [format |-> "custom"],
                 cmd_path, vis, TRUE, <<cmd>>)
    ELSE Returns([format |-> "raw", raw_help |-> help_output],
                 cmd_path, vis, TRUE, <<cmd>>)

\* scan_command from its first line to its first recursive call or, when there
\* is none, its return: the new visited set, the argument lists given to
\* run_command, and either the value returned (done) or the activation that
\* enters the loop over the commands.
ScanCommandEntry(prog, cmd_path, depth, parent_help, vis) ==
    IF AlreadyVisited(cmd_path, vis)
    THEN Returns(ErrorNode("already_visited"), cmd_path, vis, FALSE, <<>>)
    ELSE IF DepthExceeded(depth)
    THEN Returns(ErrorNode("max_depth_exceeded"), cmd_path, vis, TRUE, <<>>)
    ELSE Eager(run_command(prog, cmd_path \o <<S_HelpFlag>>),
               LAMBDA help_output :
                   Classify(cmd_path, depth, parent_help, vis,
                            cmd_path \o <<S_HelpFlag>>, help_output))

\* subcommands.setdefault(cmd_name, sub_result): a key already there keeps its
\* value.
DictSetDefault(d, key, value) ==
    IF \E k \in 1..Len(d) : d[k].key = key
    THEN d
    ELSE Append(d, [key |-> key, value |-> value])

\* subcommands[cmd_name] = sub_result, on a dict in insertion order: a new key
\* goes last, a key already there keeps its place and gets the new value.
DictSet(d, key, value) ==
    IF \E k \in 1..Len(d) : d[k].key = key
    THEN [k \in 1..Len(d) |->
             IF d[k].key = key THEN [key |-> key, value |-> value] ELSE d[k]]
    ELSE Append(d, [key |-> key, value |-> value])

\* The end of the loop: parsed["subcommands"] = subcommands if there is one.
Parsed(frame) ==
    IF frame.subcommands # <<>>
    THEN frame.parsed @@ [subcommands |-> frame.subcommands]
    ELSE frame.parsed

\* A loop that does not move on to the next command.
AfterCallAgain(frame, sub_result) ==
    [frame EXCEPT !.subcommands =
                      DictSet(@, frame.parsed.commands[frame.i].name, sub_result)]

\* A loop that an error node ends (a break on failure).
AfterCallBreak(frame, sub_result) ==
    [frame EXCEPT !.subcommands =
                      DictSet(@, frame.parsed.commands[frame.i].name, sub_result),
                  !.i = IF "error" \in DOMAIN sub_result
                        THEN Len(frame.parsed.commands) + 1 ELSE @ + 1]

\* The caller's activation after the call at its command i returned sub_result:
\* subcommands[cmd_name] = sub_result, and on to the next command.
AfterCall(frame, sub_result) ==
    [frame EXCEPT !.subcommands =
                      DictSet(@, frame.parsed.commands[frame.i].name, sub_result),
                  !.i = @ + 1]

(***************************************************************************)
(* CLIScanner: the operations.                                             *)
(***************************************************************************)

\* The innermost activation of scan_command.
Top == stack[Len(stack)]

\* scan_command has just been called and is at its first line.
AtEntry == stack # <<>> /\ Top.pc = "entry"

\* scan_command is in its loop over parsed["commands"].
InLoop == stack # <<>> /\ Top.pc = "loop"

\* No generator runs beside the scanner.
GeneratorIdle ==
    /\ data = NoDocument
    /\ config = NoConfig
    /\ markdown = NoText
    /\ template = NoTemplate
    /\ generator = "none"
    /\ generations = 0

\* No parser and no slugify is called on its own.
FunctionsIdle ==
    /\ parser_text = NoText
    /\ parse_result = NoParse
    /\ heading_text = NoText
    /\ slug = NoSlug

\* A target program, and scanner = CLIScanner(base_command=args.command).
Init ==
    /\ program \in Programs
    /\ base_command \in BaseCommands
    /\ visited = {}
    /\ stack = <<>>
    /\ invocations = <<>>
    /\ returned = NoReturn
    /\ scan_result = NoResult
    /\ scans = 0
    /\ GeneratorIdle
    /\ FunctionsIdle

\* CLIScanner(base_command): a new scanner for the same target program.
Construct ==
    /\ stack = <<>>
    /\ scans < MaxScans
    /\ \E b \in BaseCommands : base_command' = b
    /\ visited' = {}
    /\ returned' = NoReturn
    /\ UNCHANGED <<program, stack, invocations, scan_result, scans>>
    /\ UNCHANGED <<generator_vars, function_vars>>

\* scan(): the call self.scan_command([self.base_command]).
Scan ==
    /\ stack = <<>>
    /\ scans < MaxScans
    /\ scans' = scans + 1
    /\ stack' = <<Called(<<base_command>>, 0, NoText)>>
    /\ invocations' = <<>>
    /\ returned' = NoReturn
    /\ scan_result' = NoResult
    /\ UNCHANGED <<program, base_command, visited>>
    /\ UNCHANGED <<generator_vars, function_vars>>

\* The return of the innermost activation with value v: to the loop of its
\* caller, or from the outermost activation to scan().
Return(frame, v) ==
    /\ returned' = [cmd_path |-> frame.cmd_path, depth |-> frame.depth,
                    parent_help |-> frame.parent_help, value |-> v]
    /\ IF Len(stack) = 1
       THEN /\ stack' = <<>>
            /\ scan_result' = [command |-> base_command, scanned_at |-> S_Date,
                               data |-> v]
       ELSE /\ stack' = [SubSeq(stack, 1, Len(stack) - 1)
                            EXCEPT ![Len(stack) - 1] = AfterCall(@, v)]
            /\ UNCHANGED scan_result

\* scan_command from its entry to its first recursive call or its return.
Enter ==
    /\ AtEntry
    /\ \E r \in {ScanCommandEntry(program, Top.cmd_path, Top.depth,
                                   Top.parent_help, visited)} :
           /\ visited' = r.visited
           /\ invocations' = invocations \o r.ran
           /\ IF r.done
              THEN Return(Top, r.value)
              ELSE /\ stack' = [stack EXCEPT ![Len(stack)] = r.frame]
                   /\ UNCHANGED <<returned, scan_result>>
    /\ UNCHANGED <<program, base_command, scans>>
    /\ UNCHANGED <<generator_vars, function_vars>>

\* The recursive call without its parent_help argument.
CallWithoutParentHelp ==
    /\ InLoop
    /\ Top.i <= Len(Top.parsed.commands)
    /\ Top.parsed.commands[Top.i].name # S_Help
    /\ stack' = Append(stack,
           Called(Append(Top.cmd_path, Top.parsed.commands[Top.i].name),
                  Top.depth + 1, NoText))
    /\ UNCHANGED <<program, base_command, visited, invocations, returned,
                   scan_result, scans>>
    /\ UNCHANGED <<generator_vars, function_vars>>

\* The loop over parsed["commands"], at a command that is not "help": the
\* recursive call self.scan_command(cmd_path + [cmd_name], depth + 1, help_output).
Call ==
    /\ InLoop
    /\ Top.i <= Len(Top.parsed.commands)
    /\ Top.parsed.commands[Top.i].name # S_Help
    /\ stack' = Append(stack,
           Called(Append(Top.cmd_path, Top.parsed.commands[Top.i].name),
                  Top.depth + 1, Top.help_output))
    /\ UNCHANGED <<program, base_command, visited, invocations, returned,
                   scan_result, scans>>
    /\ UNCHANGED <<generator_vars, function_vars>>

\* The loop at the command "help", which is skipped.
SkipHelp ==
    /\ InLoop
    /\ Top.i <= Len(Top.parsed.commands)
    /\ Top.parsed.commands[Top.i].name = S_Help
    /\ stack' = [stack EXCEPT ![Len(stack)].i = @ + 1]
    /\ UNCHANGED <<program, base_command, visited, invocations, returned,
                   scan_result, scans>>
    /\ UNCHANGED <<generator_vars, function_vars>>

\* The end of the loop, and return parsed.
Finish ==
    /\ InLoop
    /\ Top.i > Len(Top.parsed.commands)
    /\ Return(Top, Parsed(Top))
    /\ UNCHANGED <<program, base_command, visited, invocations, scans>>
    /\ UNCHANGED <<generator_vars, function_vars>>

\* A step of scan_command.
Step == Enter \/ Call \/ SkipHelp \/ Finish

Next == Construct \/ Scan \/ Step

Spec == Init /\ [][Next]_vars

\* scan() runs to its end: the interpreter takes every step of scan_command.
LiveSpec == Spec /\ WF_vars(Step)

(***************************************************************************)
(* MarkdownGenerator (transform_to_markdown.py): its pure functions.  A    *)
(* command node is a record as scan_command builds it.                     *)
(***************************************************************************)

\* '*Generated: '
S_Generated == <<"*", "G", "e", "n", "e", "r", "a", "t", "e", "d", ":", " ">>

\* '*Command: \x60'
S_CommandOpen == <<"*", "C", "o", "m", "m", "a", "n", "d", ":", " ", "BQ">>

\* '## Table of Contents\n'
S_TocHeading ==
    <<
    "#", "#", " ", "T", "a", "b", "l", "e", " ", "o", "f", " ", "C", "o",
    "n", "t", "e", "n", "t", "s", "\n"
    >>

\* '\n\n*Help for this command is currently unavailable due to a technical issue with option serialization.*\n\n'
S_ErrorBigInt ==
    <<
    "\n", "\n", "*", "H", "e", "l", "p", " ", "f", "o", "r", " ", "t", "h",
    "i", "s", " ", "c", "o", "m", "m", "a", "n", "d", " ", "i", "s", " ",
    "c", "u", "r", "r", "e", "n", "t", "l", "y", " ", "u", "n", "a", "v",
    "a", "i", "l", "a", "b", "l", "e", " ", "d", "u", "e", " ", "t", "o",
    " ", "a", " ", "t", "e", "c", "h", "n", "i", "c", "a", "l", " ", "i",
    "s", "s", "u", "e", " ", "w", "i", "t", "h", " ", "o", "p", "t", "i",
    "o", "n", " ", "s", "e", "r", "i", "a", "l", "i", "z", "a", "t", "i",
    "o", "n", ".", "*", "\n", "\n"
    >>

\* '\n\n*This command help is currently unavailable due to a technical issue.*\n\n'
S_ErrorOther ==
    <<
    "\n", "\n", "*", "T", "h", "i", "s", " ", "c", "o", "m", "m", "a", "n",
    "d", " ", "h", "e", "l", "p", " ", "i", "s", " ", "c", "u", "r", "r",
    "e", "n", "t", "l", "y", " ", "u", "n", "a", "v", "a", "i", "l", "a",
    "b", "l", "e", " ", "d", "u", "e", " ", "t", "o", " ", "a", " ", "t",
    "e", "c", "h", "n", "i", "c", "a", "l", " ", "i", "s", "s", "u", "e",
    ".", "*", "\n", "\n"
    >>

\* ' Subcommands\n': the heading at the level of the command's own heading.
S_SubcommandsSameLevel ==
    <<
    " ", "S", "u", "b", "c", "o", "m", "m", "a", "n", "d", "s", "\n"
    >>

\* '# Subcommands\n'
S_Subcommands ==
    <<
    "#", " ", "S", "u", "b", "c", "o", "m", "m", "a", "n", "d", "s", "\n"
    >>

\* 'three backquotesbash'
S_FenceBash == <<"BQ", "BQ", "BQ", "b", "a", "s", "h">>

\* '**Usage:**'
S_UsageHeading == <<"*", "*", "U", "s", "a", "g", "e", ":", "*", "*">>

\* '**Available Commands:**\n'
S_CommandsHeading ==
    <<
    "*", "*", "A", "v", "a", "i", "l", "a", "b", "l", "e", " ", "C", "o",
    "m", "m", "a", "n", "d", "s", ":", "*", "*", "\n"
    >>

\* '**Options:**\n'
S_OptionsHeading ==
    <<
    "*", "*", "O", "p", "t", "i", "o", "n", "s", ":", "*", "*", "\n"
    >>

\* ' (default: \x60'
S_DefaultOpen ==
    <<
    " ", "(", "d", "e", "f", "a", "u", "l", "t", ":", " ", "BQ"
    >>

\* '  *Environment: \x60$'
S_EnvOpen ==
    <<
    " ", " ", "*", "E", "n", "v", "i", "r", "o", "n", "m", "e", "n", "t",
    ":", " ", "BQ", "$"
    >>

\* '| Option | Description |'
S_TableHead ==
    <<
    "|", " ", "O", "p", "t", "i", "o", "n", " ", "|", " ", "D", "e", "s",
    "c", "r", "i", "p", "t", "i", "o", "n", " ", "|"
    >>

\* '|--------|-------------|'
S_TableRule ==
    <<
    "|", "-", "-", "-", "-", "-", "-", "-", "-", "|", "-", "-", "-", "-",
    "-", "-", "-", "-", "-", "-", "-", "-", "-", "|"
    >>

\* 'CLI Reference'
S_DefaultTitle ==
    <<
    "C", "L", "I", " ", "R", "e", "f", "e", "r", "e", "n", "c", "e"
    >>

UpperLetters ==
    <<"A", "B", "C", "D", "E", "F", "G", "H", "I", "J", "K", "L", "M", "N",
      "O", "P", "Q", "R", "S", "T", "U", "V", "W", "X", "Y", "Z">>

LowerLetters ==
    <<"a", "b", "c", "d", "e", "f", "g", "h", "i", "j", "k", "l", "m", "n",
      "o", "p", "q", "r", "s", "t", "u", "v", "w", "x", "y", "z">>

\* c.lower() of one character.
Lower(c) ==
    IF c \in UpperCase
    THEN LowerLetters[CHOOSE i \in 1..Len(UpperLetters) : UpperLetters[i] = c]
    ELSE c

\* s * n
Repeat(s, n) == [i \in 1..(n * Len(s)) |-> s[((i - 1) % Len(s)) + 1]]

\* [x for part in parts for x in part]
RECURSIVE Flatten(_)
Flatten(parts) ==
    IF Len(parts) = 0 THEN <<>>
    ELSE Head(parts) \o Eager(Tail(parts), LAMBDA rest : Flatten(rest))

NonEmpty(s) == Len(s) > 0

\* {}
EmptyDict == [key \in {} |-> key]

\* bool(d.get(key)) where d[key] is a str or None.
HasText(d, key) == key \in DOMAIN d /\ d[key] # <<>> /\ d[key] # NoText

\* bool(d.get(key)) where d[key] is a list.
HasList(d, key) == key \in DOMAIN d /\ Len(d[key]) > 0

\* d.get(key, '') where d[key] is a str.
GetText(d, key) == IF key \in DOMAIN d THEN d[key] ELSE <<>>

\* cmd_data.get("format")
FormatOf(cmd_data) ==
    IF "format" \in DOMAIN cmd_data THEN cmd_data.format ELSE None

\* cmd_data.get("error_type", "unknown")
ErrorTypeOf(cmd_data) ==
    IF "error_type" \in DOMAIN cmd_data THEN cmd_data.error_type ELSE "unknown"

\* self.data.get("data", {})
DataOf(doc) == IF "data" \in DOMAIN doc THEN doc.data ELSE EmptyDict

\* The max_depth of get_default_config.
DefaultMaxDepth == 5

get_default_config ==
    [title |-> S_DefaultTitle,
     include_toc |-> TRUE,
     include_metadata |-> TRUE,
     heading_prefix |-> <<"#">>,
     show_usage |-> TRUE,
     show_env_vars |-> TRUE,
     max_depth |-> DefaultMaxDepth,
     option_table_format |-> "list"]

\* default_config.update(config)
Update(d, u) ==
    [key \in DOMAIN d \cup DOMAIN u |->
        IF key \in DOMAIN u THEN u[key] ELSE d[key]]

\* self.config of MarkdownGenerator(data, config): the defaults, updated with
\* config if it is given and not empty.
MergedConfig(user_config) == Update(get_default_config, user_config)

\* The slug with the hyphens of the text turned into slashes, which a second
\* call turns into hyphens again.
SlugifyHyphensLast(text) ==
    Replace(Replace([i \in 1..Len(text) |-> Lower(text[i])],
                    <<"-">>, <<"/">>),
            <<" ">>, <<"-">>)

\* text.lower().replace(' ', '-').replace('/', '-')
slugify(text) ==
    Replace(Replace([i \in 1..Len(text) |-> Lower(text[i])],
                    <<" ">>, <<"-">>),
            <<"/">>, <<"-">>)

\* text.replace('<', '&lt;').replace('>', '&gt;')
escape_html_entities(text) ==
    Replace(Replace(text, <<"<">>, <<"&", "l", "t", ";">>),
            <<">">>, <<"&", "g", "t", ";">>)

\* "#" * (depth + 1)
Heading(depth) == Repeat(<<"#">>, depth + 1)

\* f"{indent}- [{cmd_name}](#{slug})" with indent = "  " * depth
TocEntry(cmd_name, depth) ==
    Repeat(<<" ", " ">>, depth) \o <<"-", " ", "[">> \o cmd_name
        \o <<"]", "(", "#">>
        \o slugify(cmd_name) \o <<")">>

\* f"{opt.get('short', '')} {opt.get('long', '')}".strip()
Flags(opt) == Strip(GetText(opt, "short") \o <<" ">> \o GetText(opt, "long"))

render_options_table(options) ==
    Join(<<S_TableHead, S_TableRule>>
             \o [k \in 1..Len(options) |->
                    <<"|", " ", "BQ">> \o Flags(options[k]) \o <<"BQ", " ", "|", " ">>
                        \o Replace(escape_html_entities(
                                       GetText(options[k], "description")),
                                   <<"|">>, <<"\\", "|">>)
                        \o <<" ", "|">>],
         "\n")

render_options_list(options) ==
    Join([k \in 1..Len(options) |->
             <<"-", " ", "BQ">> \o Flags(options[k]) \o <<"BQ", " ", "-", " ">>
                 \o escape_html_entities(GetText(options[k], "description"))],
         "\n")

\* The description paragraph of a command, if it has a description.
DescriptionSection(cmd_data) ==
    IF HasText(cmd_data, "description")
    THEN <<escape_html_entities(cmd_data.description) \o <<"\n">>>>
    ELSE <<>>

\* The "Usage" part of render_commander_command.
UsageSection(conf, cmd_data) ==
    IF conf.show_usage /\ HasText(cmd_data, "usage")
    THEN <<S_UsageHeading, S_FenceBash, cmd_data.usage,
           <<"BQ", "BQ", "BQ", "\n">>>>
    ELSE <<>>

\* The "Commands list" part of render_commander_command.
CommandsSection(cmd_data) ==
    IF HasList(cmd_data, "commands")
    THEN <<S_CommandsHeading>>
             \o [k \in 1..Len(cmd_data.commands) |->
                    <<"-", " ", "BQ">> \o cmd_data.commands[k].signature \o <<"BQ", " ", "-", " ">>
                        \o escape_html_entities(
                               cmd_data.commands[k].description)]
             \o <<<<>>>>
    ELSE <<>>

\* The "Options" part of render_commander_command.
OptionsSection(conf, cmd_data) ==
    IF HasList(cmd_data, "options")
    THEN <<S_OptionsHeading,
           IF conf.option_table_format = "table"
           THEN render_options_table(cmd_data.options)
           ELSE render_options_list(cmd_data.options),
           <<>>>>
    ELSE <<>>

render_commander_command(conf, cmd_data, depth) ==
    Join(DescriptionSection(cmd_data) \o UsageSection(conf, cmd_data)
             \o CommandsSection(cmd_data) \o OptionsSection(conf, cmd_data),
         "\n")

\* The lines of one option in render_custom_command.
CustomOptionLines(conf, opt) ==
    <<<<"-", " ", "BQ">> \o opt.flag \o <<"BQ">>
          \o IF HasText(opt, "default")
             THEN S_DefaultOpen \o opt.default \o <<"BQ", ")">>
             ELSE <<>>>>
        \o (IF HasText(opt, "description")
            THEN <<<<" ", " ">> \o escape_html_entities(opt.description)>>
            ELSE <<>>)
        \o (IF conf.show_env_vars /\ HasText(opt, "env")
            THEN <<S_EnvOpen \o opt.env \o <<"BQ", "*">>>>
            ELSE <<>>)
        \o <<<<>>>>

\* The lines of one section in render_custom_command.
CustomSectionLines(conf, section) ==
    <<<<"*", "*">> \o section.name \o <<"*", "*", "\n">>>>
        \o IF HasList(section, "options")
           THEN Flatten([k \in 1..Len(section.options) |->
                            CustomOptionLines(conf, section.options[k])])
           ELSE <<>>

render_custom_command(conf, cmd_data, depth) ==
    Join(DescriptionSection(cmd_data)
             \o IF "sections" \in DOMAIN cmd_data
                THEN Flatten([k \in 1..Len(cmd_data.sections) |->
                                 CustomSectionLines(conf, cmd_data.sections[k])])
                ELSE <<>>,
         "\n")

RECURSIVE generate_toc(_, _, _, _)
generate_toc(conf, cmd_data, cmd_name, depth) ==
    IF depth > conf.max_depth THEN <<>>
    ELSE Join(<<TocEntry(cmd_name, depth)>>
                  \o IF /\ FormatOf(cmd_data) = "commander"
                        /\ "subcommands" \in DOMAIN cmd_data
                     THEN SelectSeq(
                              [k \in 1..Len(cmd_data.subcommands) |->
                                  generate_toc(
                                      conf, cmd_data.subcommands[k].value,
                                      cmd_name \o <<" ">>
                                          \o cmd_data.subcommands[k].key,
                                      depth + 1)],
                              NonEmpty)
                     ELSE <<>>,
              "\n")

\* The stub with the same sentence for every error node.
ErrorStubGeneric(cmd_name, cmd_data, depth) ==
    Heading(depth) \o <<" ">> \o cmd_name \o S_ErrorOther

\* The stub section of a command whose node is an error node.
ErrorStub(cmd_name, cmd_data, depth) ==
    Heading(depth) \o <<" ">> \o cmd_name
        \o IF ErrorTypeOf(cmd_data) = "bigint_serialization"
           THEN S_ErrorBigInt
           ELSE S_ErrorOther

RECURSIVE generate_command_docs(_, _, _, _)
generate_command_docs(conf, cmd_name, cmd_data, depth) ==
    IF depth > conf.max_depth THEN <<>>
    ELSE IF "error" \in DOMAIN cmd_data
    THEN ErrorStub(cmd_name, cmd_data, depth)
    ELSE Join(
        <<Heading(depth) \o <<" ">> \o cmd_name \o <<"\n">>>>
            \o (IF FormatOf(cmd_data) = "commander"
                THEN <<render_commander_command(conf, cmd_data, depth)>>
                         \o IF "subcommands" \in DOMAIN cmd_data
                            THEN <<<<"\n">> \o Heading(depth) \o S_Subcommands>>
                                     \o [k \in 1..Len(cmd_data.subcommands) |->
                                            generate_command_docs(
                                                conf,
                                                cmd_name \o <<" ">>
                                                    \o cmd_data.subcommands[k].key,
                                                cmd_data.subcommands[k].value,
                                                depth + 1)]
                            ELSE <<>>
                ELSE IF FormatOf(cmd_data) = "custom"
                THEN <<render_custom_command(conf, cmd_data, depth)>>
                ELSE IF FormatOf(cmd_data) = "raw"
                THEN <<<<"BQ", "BQ", "BQ">>,
                       GetText(cmd_data, "raw_help"),
                       <<"BQ", "BQ", "BQ", "\n">>>>
                ELSE <<>>),
        "\n")

\* The title of generate().
TitleSection(conf) ==
    IF HasText(conf, "title")
    THEN <<<<"#", " ">> \o conf.title \o <<"\n">>>>
    ELSE <<>>

\* The metadata of generate().
MetadataSection(doc, conf) ==
    IF conf.include_metadata /\ "scanned_at" \in DOMAIN doc
    THEN <<S_Generated \o doc.scanned_at \o <<"*", "\n">>,
           S_CommandOpen \o doc.command \o <<"BQ", "*", "\n">>>>
    ELSE <<>>

\* The table of contents of generate(): nothing when toc is empty.
TocSection(toc) == IF toc # <<>> THEN <<S_TocHeading, toc>> ELSE <<>>

\* generate() with the table of contents put before the metadata.
GenerateTocFirst(doc, conf) ==
    Join(TitleSection(conf)
             \o (IF conf.include_toc
                 THEN Eager(generate_toc(conf, DataOf(doc),
                                         GetText(doc, "command"), 0),
                            LAMBDA toc : TocSection(toc))
                 ELSE <<>>)
             \o MetadataSection(doc, conf)
             \o <<generate_command_docs(conf, GetText(doc, "command"),
                                        DataOf(doc), 1)>>,
         "\n")

generate(doc, conf) ==
    Join(TitleSection(conf)
             \o MetadataSection(doc, conf)
             \o (IF conf.include_toc
                 THEN Eager(generate_toc(conf, DataOf(doc),
                                         GetText(doc, "command"), 0),
                            LAMBDA toc : TocSection(toc))
                 ELSE <<>>)
             \o <<generate_command_docs(conf, GetText(doc, "command"),
                                        DataOf(doc), 1)>>,
         "\n")

(***************************************************************************)
(* MarkdownGenerator: the documents and configurations it is given.        *)
(***************************************************************************)

\* The largest max_depth a configuration file sets.
MaxConfigDepth == 3

\* A Commander node as scan_command returns it for the help text help_output,
\* with the nodes of its subcommands (none: no "subcommands" key).
CommanderNode(help_output, subcommands) ==
    IF subcommands = <<>>
    THEN CommanderParsed[help_output] @@ [format |-> "commander"]
    ELSE CommanderParsed[help_output] @@ [format |-> "commander"]
             @@ [subcommands |-> subcommands]

\* The node scan_command returns for a command at the given depth of a target
\* program in which "a" lists "b" and "b" lists "a": Commander nodes down to
\* the depth limit of the scan and the max_depth_exceeded node below it.  The
\* root, at depth 0, lists "a".
RECURSIVE CycleNode(_, _)
CycleNode(depth, last) ==
    IF depth > last THEN ErrorNode("max_depth_exceeded")
    ELSE IF depth % 2 = 0
    THEN CommanderNode(HelpA, <<[key |-> <<"a">>,
                                 value |-> CycleNode(depth + 1, last)]>>)
    ELSE CommanderNode(HelpB, <<[key |-> <<"b">>,
                                 value |-> CycleNode(depth + 1, last)]>>)

\* The Commander node of HelpAB whose subcommand "a" failed and whose subcommand
\* "b" printed a sectioned help.
MixedNode ==
    CommanderNode(Cleaned[HelpAB],
        <<[key |-> <<"a">>, value |-> ExecutionError(ErrBigInt)],
          [key |-> <<"b">>,
           value |-> CustomParsed[Cleaned[HelpCustom]] @@ [format |-> "custom"]]>>)

\* The Commander node of HelpAB whose subcommand "a" lists a subcommand "b" of
\* its own and whose subcommand "b" printed a text of no known format.
NestedNode ==
    CommanderNode(Cleaned[HelpAB],
        <<[key |-> <<"a">>,
           value |-> CommanderNode(HelpB,
                         <<[key |-> <<"b">>,
                            value |-> [format |-> "raw",
                                       raw_help |-> HelpRaw]]>>)],
          [key |-> <<"b">>,
           value |-> [format |-> "raw", raw_help |-> HelpRaw]]>>)

\* The Commander node of HelpAB whose subcommand "a" failed to serialize its
\* options and whose subcommand "b" printed the help of its parent.
FailedNode ==
    CommanderNode(Cleaned[HelpAB],
        <<[key |-> <<"a">>, value |-> ExecutionError(ErrBigInt)],
          [key |-> <<"b">>, value |-> ErrorNode("invalid_subcommand")]>>)

\* The Commander node of HelpAB whose subcommand "a" printed an error and whose
\* subcommand "b" printed nothing.
SilentNode ==
    CommanderNode(Cleaned[HelpAB],
        <<[key |-> <<"a">>, value |-> ExecutionError(ErrGeneric)],
          [key |-> <<"b">>, value |-> ErrorNode("no_help_output")]>>)

\* 'Usage: t\nOptions:\n  -f, --fmt=a|b  x|y <z>\nCommands:\n'
\* A help text whose option has a '|' in its long flag and in its description.
HelpPipe ==
    <<
    "U", "s", "a", "g", "e", ":", " ", "t", "\n", "O", "p", "t", "i",
    "o", "n", "s", ":", "\n", " ", " ", "-", "f", ",", " ", "-", "-",
    "f", "m", "t", "=", "a", "|", "b", " ", " ", "x", "|", "y", " ",
    "<", "z", ">", "\n", "C", "o", "m", "m", "a", "n", "d", "s", ":",
    "\n"
    >>

\* The Commander node scan_command returns for HelpPipe.
PipeNode == parse_commander_help(HelpPipe) @@ [format |-> "commander"]

\* The command trees given to the generator: trees scan() returns.
Trees ==
    {[format |-> "raw", raw_help |-> HelpRaw],
     CustomParsed[Cleaned[HelpCustom]] @@ [format |-> "custom"],
     ErrorNode("no_help_output"),
     ExecutionError(ErrGeneric),
     CommanderNode(Cleaned[HelpAB], <<>>),
     MixedNode, FailedNode, SilentNode, PipeNode, NestedNode}
        \cup {CycleNode(0, last) : last \in 0..MaxDepth}

\* The documents scan_cli.py writes, and one without the scan's metadata.
Documents ==
    {[command |-> <<"t">>, scanned_at |-> S_Date, data |-> tree] :
        tree \in Trees}
        \cup {[command |-> <<"t">>, data |-> MixedNode]}

\* The CONFIG dictionaries of a --template file.
UserConfigs ==
    {EmptyDict}
        \cup {[max_depth |-> d, option_table_format |-> f] :
                 d \in 0..MaxConfigDepth, f \in {"list", "table"}}
        \cup {[include_toc |-> FALSE], [include_metadata |-> FALSE],
              [title |-> <<>>, include_toc |-> FALSE,
               include_metadata |-> FALSE]}

\* The modules given as --template: each has a CONFIG dictionary, and it
\* defines the functions custom_header and custom_footer, as
\* doc_template_example.py does, or neither.
Templates ==
    {[CONFIG |-> c, custom_header |-> f, custom_footer |-> f] :
        c \in UserConfigs, f \in BOOLEAN}

\* custom_header(cmd_name, depth) of doc_template_example.py.
custom_header(cmd_name, depth) ==
    Heading(depth) \o <<" ", "BQ">> \o cmd_name
        \o <<"BQ", " ", "C", "o", "m", "m", "a", "n", "d", "\n">>

\* custom_footer() of doc_template_example.py: a rule, the heading
\* '## Additional Resources', two links and a closing line.
custom_footer ==
    <<
    "\n", "-", "-", "-", "\n", "\n", "#", "#", " ", "A", "d", "d", "i",
    "t", "i", "o", "n", "a", "l", " ", "R", "e", "s", "o", "u", "r", "c",
    "e", "s", "\n", "\n", "-", " ", "[", "A", "z", "t", "e", "c", " ", "D",
    "o", "c", "u", "m", "e", "n", "t", "a", "t", "i", "o", "n", "]", "(",
    "h", "t", "t", "p", "s", ":", "/", "/", "d", "o", "c", "s", ".", "a",
    "z", "t", "e", "c", ".", "n", "e", "t", "w", "o", "r", "k", ")", "\n",
    "-", " ", "[", "G", "i", "t", "H", "u", "b", " ", "R", "e", "p", "o",
    "s", "i", "t", "o", "r", "y", "]", "(", "h", "t", "t", "p", "s", ":",
    "/", "/", "g", "i", "t", "h", "u", "b", ".", "c", "o", "m", "/", "A",
    "z", "t", "e", "c", "P", "r", "o", "t", "o", "c", "o", "l", "/", "a",
    "z", "t", "e", "c", "-", "p", "a", "c", "k", "a", "g", "e", "s", ")",
    "\n", "\n", "*", "T", "h", "i", "s", " ", "d", "o", "c", "u", "m", "e",
    "n", "t", "a", "t", "i", "o", "n", " ", "w", "a", "s", " ", "a", "u",
    "t", "o", "-", "g", "e", "n", "e", "r", "a", "t", "e", "d", " ", "f",
    "r", "o", "m", " ", "C", "L", "I", " ", "h", "e", "l", "p", " ", "o",
    "u", "t", "p", "u", "t", ".", "*", "\n"
    >>

\* load_config_from_file(config_path): the CONFIG of the module.
load_config_from_file(config_module) == config_module.CONFIG

\* The config main() passes to MarkdownGenerator: None without --template.
ConfigOf(config_module) ==
    IF config_module = NoTemplate THEN EmptyDict
    ELSE load_config_from_file(config_module)

(***************************************************************************)
(* MarkdownGenerator: the operations.                                      *)
(***************************************************************************)

\* No scanner runs beside the generator.
ScannerIdle ==
    /\ program = [token \in Tokens |-> NoText]
    /\ base_command = <<"t">>
    /\ visited = {}
    /\ stack = <<>>
    /\ invocations = <<>>
    /\ returned = NoReturn
    /\ scan_result = NoResult
    /\ scans = 0

\* generator = MarkdownGenerator(data, config), as main() builds it from the
\* input file and the template.
GenInit ==
    /\ ScannerIdle
    /\ FunctionsIdle
    /\ data \in Documents
    /\ template \in Templates \cup {NoTemplate}
    /\ config = MergedConfig(ConfigOf(template))
    /\ markdown = NoText
    /\ generator = "cli"
    /\ generations = 0

\* The number of generate() calls made on one generator.
MaxGenerations == 2

\* generate() that clears the title of self.config once it has used it.
GenerateOnce ==
    /\ generator = "cli"
    /\ generations < MaxGenerations
    /\ generations' = generations + 1
    /\ markdown' = generate(data, config)
    /\ config' = [config EXCEPT !.title = <<>>]
    /\ UNCHANGED <<data, template, generator>>
    /\ UNCHANGED <<scanner_vars, function_vars>>

\* generate() that takes the tree out of self.data as it renders it.
GenerateConsuming ==
    /\ generator = "cli"
    /\ generations < MaxGenerations
    /\ generations' = generations + 1
    /\ markdown' = generate(data, config)
    /\ data' = [key \in DOMAIN data |->
                   IF key = "data" THEN EmptyDict ELSE data[key]]
    /\ UNCHANGED <<config, template, generator>>
    /\ UNCHANGED <<scanner_vars, function_vars>>

\* markdown = generator.generate()
Generate ==
    /\ generator = "cli"
    /\ generations < MaxGenerations
    /\ generations' = generations + 1
    /\ markdown' = generate(data, config)
    /\ UNCHANGED <<data, config, template, generator>>
    /\ UNCHANGED <<scanner_vars, function_vars>>

GenNext == Generate

GenSpec == GenInit /\ [][GenNext]_vars

(***************************************************************************)
(* slugify of the two renderers: MarkdownGenerator.slugify of the command  *)
(* line reference (above) and of the aztec.js API reference (below).       *)
(***************************************************************************)

\* c.isalnum() or c == '-', for the characters of the texts below.
IsAlnumOrHyphen(c) ==
    c \in LowerCase \cup UpperCase \cup Digits \cup {"-"}

\* while '--' in slug: slug = slug.replace('--', '-')
RECURSIVE CollapseHyphens(_)
CollapseHyphens(s) ==
    IF Contains(s, <<"-", "-">>)
    THEN CollapseHyphens(Replace(s, <<"-", "-">>, <<"-">>))
    ELSE s

\* slug.strip('-')
StripHyphens(s) ==
    LET keep == {k \in 1..Len(s) : s[k] # "-"}
    IN  IF keep = {} THEN <<>> ELSE SubSeq(s, Min(keep), Max(keep))

\* slugify of the aztec.js API reference.
aztecjs_slugify(name) ==
    StripHyphens(
        CollapseHyphens(
            SelectSeq(
                Replace(Replace(Replace(Replace(
                    [i \in 1..Len(name) |-> Lower(name[i])],
                    <<" ">>, <<"-">>), <<"/">>, <<"-">>),
                    <<".">>, <<"-">>), <<"_">>, <<"-">>),
                IsAlnumOrHyphen)))

\* The longest heading text slugify is called with.
MaxTextLen == 3

\* The characters of the heading texts.
TextChars == {"a", "B", "1", " ", "/", ".", "_", "-", "!"}

\* The heading texts: every text of at most MaxTextLen characters.
HeadingTexts == UNION {[1..n -> TextChars] : n \in 0..MaxTextLen}

Renderers == {"cli", "aztecjs"}

\* self.slugify(name) of the generator of the renderer.
SlugOf(renderer, name) ==
    IF renderer = "cli" THEN slugify(name) ELSE aztecjs_slugify(name)

\* A heading text, and no slug made yet.
SlugInit ==
    /\ ScannerIdle
    /\ GeneratorIdle
    /\ parser_text = NoText
    /\ parse_result = NoParse
    /\ heading_text \in HeadingTexts
    /\ slug = NoSlug

\* slug = self.slugify(heading_text)
Slugify ==
    /\ slug = NoSlug
    /\ \E renderer \in Renderers :
          slug' = [renderer |-> renderer, of |-> heading_text,
                   value |-> SlugOf(renderer, heading_text)]
    /\ UNCHANGED <<heading_text, parser_text, parse_result>>
    /\ UNCHANGED <<scanner_vars, generator_vars>>

\* self.slugify(slug): the slug of a slug.
Reslugify ==
    /\ slug # NoSlug
    /\ slug' = [renderer |-> slug.renderer, of |-> slug.value,
                value |-> SlugOf(slug.renderer, slug.value)]
    /\ UNCHANGED <<heading_text, parser_text, parse_result>>
    /\ UNCHANGED <<scanner_vars, generator_vars>>

SlugNext == Slugify \/ Reslugify

SlugSpec == SlugInit /\ [][SlugNext]_vars

(***************************************************************************)
(* MarkdownGenerator of the aztec.js API reference                         *)
(* (aztecjs_reference_generation/transform_to_markdown.py): generate(),    *)
(* for the data whose folders list no files.                               *)
(***************************************************************************)

\* 'API Reference'
S_ApiTitle ==
    <<"A", "P", "I", " ", "R", "e", "f", "e", "r", "e", "n", "c", "e">>

\* '*Package: '
S_Package == <<"*", "P", "a", "c", "k", "a", "g", "e", ":", " ">>

\* 'This document provides ... and return types.\n'
S_Introduction ==
    <<
    "T", "h", "i", "s", " ", "d", "o", "c", "u", "m", "e", "n", "t", " ",
    "p", "r", "o", "v", "i", "d", "e", "s", " ", "a", " ", "c", "o", "m",
    "p", "r", "e", "h", "e", "n", "s", "i", "v", "e", " ", "r", "e", "f",
    "e", "r", "e", "n", "c", "e", " ", "f", "o", "r", " ", "a", "l", "l",
    " ", "p", "u", "b", "l", "i", "c", " ", "A", "P", "I", "s", " ", "i",
    "n", " ", "t", "h", "e", " ", "A", "z", "t", "e", "c", ".", "j", "s",
    " ", "l", "i", "b", "r", "a", "r", "y", ".", "\n", "\n", "E", "a", "c",
    "h", " ", "s", "e", "c", "t", "i", "o", "n", " ", "i", "s", " ", "o",
    "r", "g", "a", "n", "i", "z", "e", "d", " ", "b", "y", " ", "m", "o",
    "d", "u", "l", "e", ",", " ", "w", "i", "t", "h", " ", "c", "l", "a",
    "s", "s", "e", "s", ",", " ", "i", "n", "t", "e", "r", "f", "a", "c",
    "e", "s", ",", " ", "t", "y", "p", "e", "s", ",", " ", "a", "n", "d",
    " ", "f", "u", "n", "c", "t", "i", "o", "n", "s", " ", "d", "o", "c",
    "u", "m", "e", "n", "t", "e", "d", " ", "w", "i", "t", "h", " ", "t",
    "h", "e", "i", "r", " ", "f", "u", "l", "l", " ", "s", "i", "g", "n",
    "a", "t", "u", "r", "e", "s", ",", " ", "p", "a", "r", "a", "m", "e",
    "t", "e", "r", "s", ",", " ", "a", "n", "d", " ", "r", "e", "t", "u",
    "r", "n", " ", "t", "y", "p", "e", "s", ".", "\n"
    >>

\* '\n---\n'
S_Rule == <<"\n", "-", "-", "-", "\n">>

aztecjs_get_default_config ==
    [title |-> S_ApiTitle, include_toc |-> TRUE, include_metadata |-> TRUE]

\* c.upper() of one character.
Upper(c) ==
    IF c \in LowerCase
    THEN UpperLetters[CHOOSE i \in 1..Len(LowerLetters) : LowerLetters[i] = c]
    ELSE c

\* s.title(): a letter after a character that is no letter is made upper
\* case, every other letter lower case.
Title(s) ==
    [i \in 1..Len(s) |->
        IF i = 1 \/ s[i - 1] \notin LowerCase \cup UpperCase
        THEN Upper(s[i])
        ELSE Lower(s[i])]

\* folder.get("path", folder.get("name", ""))
FolderPath(folder) ==
    IF "path" \in DOMAIN folder THEN folder.path ELSE GetText(folder, "name")

\* folder_path.replace('/', ' / ').title()
FolderDisplay(folder) ==
    Title(Replace(FolderPath(folder), <<"/">>, <<" ", "/", " ">>))

\* generate_main_toc: one entry for each folder (the folders list no files).
generate_main_toc(doc) ==
    Join([k \in 1..Len(doc.folders) |->
             <<"-", " ", "[">> \o FolderDisplay(doc.folders[k])
                 \o <<"]", "(", "#">>
                 \o aztecjs_slugify(FolderPath(doc.folders[k])) \o <<")">>],
         "\n")

\* generate_folder_section of a folder that lists no files.
generate_folder_section(folder) ==
    Join(<<<<"\n", "#", "#", " ">> \o FolderDisplay(folder) \o <<"\n">>>>
             \o (IF "description" \in DOMAIN folder
                 THEN <<folder.description \o <<"\n">>>>
                 ELSE <<>>),
         "\n")

\* The metadata of generate() of the API reference.
ApiMetadataSection(doc, conf) ==
    IF conf.include_metadata /\ "metadata" \in DOMAIN doc
    THEN (IF "package" \in DOMAIN doc.metadata
          THEN <<S_Package \o doc.metadata.package \o <<"*", "\n">>>>
          ELSE <<>>)
             \o (IF "generated_at" \in DOMAIN doc.metadata
                 THEN <<S_Generated \o doc.metadata.generated_at
                            \o <<"*", "\n">>>>
                 ELSE <<>>)
    ELSE <<>>

\* The table of contents of generate() of the API reference.
ApiTocSection(toc) ==
    IF toc # <<>> THEN <<S_TocHeading, toc, S_Rule>> ELSE <<>>

\* generate() of the API reference.
aztecjs_generate(doc, conf) ==
    Join(TitleSection(conf)
             \o ApiMetadataSection(doc, conf)
             \o <<S_Introduction>>
             \o (IF conf.include_toc
                 THEN ApiTocSection(generate_main_toc(doc))
                 ELSE <<>>)
             \o [k \in 1..Len(doc.folders) |->
                    generate_folder_section(doc.folders[k])],
         "\n")

\* The folders of the API data.
ApiFolders ==
    {<<>>,
     <<[name |-> <<"u", "t", "i", "l", "s">>]>>,
     <<[name |-> <<"u", "t", "i", "l", "s">>],
       [name |-> <<"e", "t", "h">>,
        path |-> <<"a", "p", "i", "/", "e", "t", "h">>,
        description |-> <<"E", "t", "h", " ", "a", "p", "i">>]>>}

\* The metadata of the API data.
ApiMetadata ==
    {[package |-> <<"a", "z", "t", "e", "c">>, generated_at |-> S_Date],
     [package |-> <<"a", "z", "t", "e", "c">>]}

\* The API data given to the generator, with and without metadata.
ApiDocuments ==
    {[folders |-> f] : f \in ApiFolders}
        \cup {[folders |-> f, metadata |-> m] :
                 f \in ApiFolders, m \in ApiMetadata}

\* The config dictionaries the generator of the API reference is given.
ApiConfigs ==
    {EmptyDict, [title |-> <<"T">>], [title |-> <<>>],
     [include_toc |-> FALSE], [include_metadata |-> FALSE],
     [title |-> <<>>, include_toc |-> FALSE, include_metadata |-> FALSE]}

\* generator = MarkdownGenerator(data, config) of the API reference.
ApiGenInit ==
    /\ ScannerIdle
    /\ FunctionsIdle
    /\ data \in ApiDocuments
    /\ template = NoTemplate
    /\ \E user_config \in ApiConfigs :
          config = Update(aztecjs_get_default_config, user_config)
    /\ markdown = NoText
    /\ generator = "aztecjs"
    /\ generations = 0

\* markdown = generator.generate() of the API reference.
ApiGenerate ==
    /\ generator = "aztecjs"
    /\ generations < MaxGenerations
    /\ generations' = generations + 1
    /\ markdown' = aztecjs_generate(data, config)
    /\ UNCHANGED <<data, config, template, generator>>
    /\ UNCHANGED <<scanner_vars, function_vars>>

\* Either renderer, constructed on its input.
RenderInit == GenInit \/ ApiGenInit

RenderNext == Generate \/ ApiGenerate

RenderSpec == RenderInit /\ [][RenderNext]_vars

(***************************************************************************)
(* The loop of parse_commander_help, one line at a time                    *)
(***************************************************************************)

\* The longest help text, in lines.
MaxHelpLines == 3

\* The lines the help texts are made of: usage lines (one that captures
\* nothing), plain lines, an indented line, a blank line and section markers.
HelpLines ==
    {<<"U", "s", "a", "g", "e", ":", " ", "t">>,
     <<"U", "s", "a", "g", "e", ":">>,
     <<"d", "e", "s", "c">>,
     <<"d", "2", " ">>,
     <<" ", "x">>,
     <<>>,
     <<"O", "p", "t", "i", "o", "n", "s", ":">>,
     <<"C", "o", "m", "m", "a", "n", "d", "s", ":">>}

CommanderTexts ==
    {Join(lines, "\n") :
        lines \in UNION {[1..n -> HelpLines] : n \in 1..MaxHelpLines}}

\* parse_commander_help before the loop: the empty result, no section, and
\* the first line next.
ParseInit ==
    /\ ScannerIdle
    /\ GeneratorIdle
    /\ heading_text = NoText
    /\ slug = NoSlug
    /\ parser_text \in CommanderTexts
    /\ parse_result =
           [result |-> [usage |-> <<>>, description |-> <<>>,
                        options |-> <<>>, commands |-> <<>>],
            current_section |-> None,
            line |-> 1]

\* One iteration of `for i, line in enumerate(lines)`.
ParseLine ==
    /\ parse_result # NoParse
    /\ \E lines \in {Split(parser_text, "\n")} :
           /\ parse_result.line <= Len(lines)
           /\ \E st \in {CommanderLine(
                            [result |-> parse_result.result,
                             current_section |-> parse_result.current_section],
                            lines[parse_result.line])} :
                  parse_result' =
                      [result |-> st.result,
                       current_section |-> st.current_section,
                       line |-> parse_result.line + 1]
    /\ UNCHANGED <<parser_text, heading_text, slug>>
    /\ UNCHANGED <<scanner_vars, generator_vars>>

ParseSpec == ParseInit /\ [][ParseLine]_vars

(***************************************************************************)
(* The loop of parse_custom_help, one line at a time                       *)
(***************************************************************************)

\* The longest custom help text, in lines.
MaxCustomLines == 4

\* The lines the custom help texts are made of: a section header, an option
\* line with text after its flag, lines indented by ten spaces (plain ones and
\* one that starts with a single dash), a line indented by nine, a blank line.
CustomHelpLines ==
    {<<" ", " ", "M", "I", "S", "C">>,
     <<" ", " ", " ", " ", "-", "-", "p", "o", "r", "t", " ", "<", "n", ">",
       " ", " ", "t", "h", "e", " ", "p", "o", "r", "t">>,
     <<" ", " ", " ", " ", " ", " ", " ", " ", " ", " ", "f", "i", "r", "s",
       "t">>,
     <<" ", " ", " ", " ", " ", " ", " ", " ", " ", " ", "s", "e", "c", "o",
       "n", "d">>,
     <<" ", " ", " ", " ", " ", " ", " ", " ", " ", " ", "-", "d">>,
     <<" ", " ", " ", " ", " ", " ", " ", " ", " ", "n", "i", "n", "e">>,
     <<>>}

CustomTexts ==
    {Join(lines, "\n") :
        lines \in UNION {[1..n -> CustomHelpLines] : n \in 1..MaxCustomLines}}

\* parse_custom_help before the loop: the empty result, no section, no option,
\* and the first line next.
CustomInit ==
    /\ ScannerIdle
    /\ GeneratorIdle
    /\ heading_text = NoText
    /\ slug = NoSlug
    /\ parser_text \in CustomTexts
    /\ parse_result =
           [result |-> [usage |-> <<>>, description |-> <<>>,
                        sections |-> <<>>],
            current_section |-> 0,
            current_option |-> NoOption,
            line |-> 1]

\* One iteration of `for line in lines`.
CustomParseLine ==
    /\ parse_result # NoParse
    /\ \E lines \in {Split(parser_text, "\n")} :
           /\ parse_result.line <= Len(lines)
           /\ \E st \in {CustomLine(
                            [result |-> parse_result.result,
                             current_section |-> parse_result.current_section,
                             current_option |-> parse_result.current_option],
                            lines[parse_result.line])} :
                  parse_result' =
                      [result |-> st.result,
                       current_section |-> st.current_section,
                       current_option |-> st.current_option,
                       line |-> parse_result.line + 1]
    /\ UNCHANGED <<parser_text, heading_text, slug>>
    /\ UNCHANGED <<scanner_vars, generator_vars>>

CustomSpec == CustomInit /\ [][CustomParseLine]_vars

(***************************************************************************)
(* The command tree of a scan, and the calls of scan_command.              *)
(***************************************************************************)

IsError(node) == "error" \in DOMAIN node

HasChildren(node) == "subcommands" \in DOMAIN node

\* The nodes of a command tree.
RECURSIVE Nodes(_)
Nodes(node) ==
    {node} \cup
        IF HasChildren(node)
        THEN UNION {Nodes(node.subcommands[k].value) :
                       k \in 1..Len(node.subcommands)}
        ELSE {}

\* The largest number of commands a node of the tree lists.
Branching(node) ==
    Max({0} \cup {Len(n.commands) : n \in {m \in Nodes(node) : "commands" \in DOMAIN m}})

RECURSIVE Pow(_, _)
Pow(b, n) == IF n = 0 THEN 1 ELSE b * Pow(b, n - 1)

RECURSIVE SumPow(_, _)
SumPow(b, n) == IF n = 0 THEN 1 ELSE Pow(b, n) + SumPow(b, n - 1)

\* The last call of scan_command that returned ran the target program.
Probed ==
    /\ returned # NoReturn
    /\ returned.value # ErrorNode("already_visited")
    /\ returned.value # ErrorNode("max_depth_exceeded")

\* What the target program printed for the last call that returned.
Captured == run_command(program, returned.cmd_path \o <<S_HelpFlag>>)

ScanDone == stack = <<>> /\ scan_result # NoResult

(***************************************************************************)
(* C1.  Whenever scan_command is entered for a path whose space-joined key *)
(* is already in the visited set, it returns the already_visited error     *)
(* node, calls run_command for nothing, makes no recursive call (its       *)
(* activation is gone after the step) and leaves the visited set as it is. *)
(***************************************************************************)
C1_AlreadyVisitedShortCircuit ==
    [][(AtEntry /\ cmd_str(Top.cmd_path) \in visited)
          => /\ returned' # NoReturn
             /\ returned'.cmd_path = Top.cmd_path
             /\ returned'.value = [error |-> "already_visited"]
             /\ invocations' = invocations
             /\ visited' = visited
             /\ Len(stack') = Len(stack) - 1]_vars

\* A command listed twice by its parent returned already_visited within a scan.
C1_Witness ==
    /\ returned # NoReturn
    /\ returned.depth >= 1
    /\ returned.value = [error |-> "already_visited"]

(***************************************************************************)
(* C2, as claimed.  Every call of scan_command with depth > 5 returns the  *)
(* max_depth_exceeded error node and calls run_command for nothing.        *)
(***************************************************************************)
C2_Original ==
    [][(AtEntry /\ Top.depth > MaxDepth)
          => /\ returned' # NoReturn
             /\ returned'.value = [error |-> "max_depth_exceeded"]
             /\ invocations' = invocations]_vars

(***************************************************************************)
(* C2, amended.  Every call of scan_command with depth > 5 calls           *)
(* run_command for nothing, and returns the max_depth_exceeded error node  *)
(* unless its path is already in the visited set, when it returns the      *)
(* already_visited error node.                                             *)
(***************************************************************************)
C2_DepthGuard ==
    [][(AtEntry /\ Top.depth > MaxDepth)
          => /\ returned' # NoReturn
             /\ returned'.cmd_path = Top.cmd_path
             /\ returned'.value =
                    IF cmd_str(Top.cmd_path) \in visited
                    THEN [error |-> "already_visited"]
                    ELSE [error |-> "max_depth_exceeded"]
             /\ invocations' = invocations]_vars

\* A call at depth 6 returned max_depth_exceeded.
C2_Witness ==
    /\ returned # NoReturn
    /\ returned.depth > MaxDepth
    /\ returned.value = [error |-> "max_depth_exceeded"]

(***************************************************************************)
(* C3.  When a child is probed (run_command ran for it) with a parent help *)
(* text and its captured text equals the parent's after trimming both, the *)
(* child's node is the invalid_subcommand error node and the call returns  *)
(* without a recursive call; the root's node is never invalid_subcommand.  *)
(***************************************************************************)
C3_InvalidSubcommand ==
    /\ (Probed /\ returned.parent_help # NoText /\ Captured # NoText
           /\ Strip(Captured) = Strip(returned.parent_help))
          => /\ returned.value = [error |-> "invalid_subcommand"]
             /\ ~HasChildren(returned.value)
    /\ (returned # NoReturn /\ returned.depth = 0)
          => returned.value # [error |-> "invalid_subcommand"]
    /\ ScanDone => scan_result.data # [error |-> "invalid_subcommand"]

\* A child whose text differs from its parent's only in the whitespace around
\* it was found invalid.
C3_Witness ==
    /\ Probed
    /\ returned.parent_help # NoText
    /\ Captured # returned.parent_help
    /\ Strip(Captured) = Strip(returned.parent_help)
    /\ returned.value = [error |-> "invalid_subcommand"]

(***************************************************************************)
(* C4, as claimed.  Whenever the captured text of a probed path contains   *)
(* the marker 'TypeError: Do not know how to serialize' or the marker      *)
(* 'at JSON.stringify', the node is a command_execution_error whose        *)
(* error_type is the serialization failure, not "unknown".                 *)
(***************************************************************************)
C4_Original ==
    (Probed /\ Captured # NoText
        /\ (Contains(Captured, error_markers[2])
               \/ Contains(Captured, error_markers[5])))
       => /\ IsError(returned.value)
          /\ returned.value.error = "command_execution_error"
          /\ returned.value.error_type = "bigint_serialization"

(***************************************************************************)
(* C5.  A scan terminates: once scan() has called scan_command, the call   *)
(* of the root returns (every activation is gone and scan() has its        *)
(* result).  The target program lists finitely many commands in every help *)
(* text and run_command always returns.                                    *)
(***************************************************************************)
C5_ScanTerminates == (stack # <<>>) ~> ScanDone

\* A scan that went down to the depth limit has returned.
C5_Witness ==
    /\ ScanDone
    /\ Len(invocations) > MaxDepth
    /\ \E n \in Nodes(scan_result.data) : n = [error |-> "max_depth_exceeded"]

(***************************************************************************)
(* C6, as claimed.  The number of calls of run_command in a scan is at     *)
(* most b^5, b the largest number of commands a probed node lists.         *)
(***************************************************************************)
C6_Original ==
    ScanDone =>
        Len(invocations) <= Pow(Branching(scan_result.data), MaxDepth)

(***************************************************************************)
(* C6, amended.  The number of calls of run_command in a scan is at most   *)
(* 1 + b + b^2 + ... + b^5 (one call for the root and at most b^d at depth *)
(* d, for the depths 0..5), b the largest number of commands a probed node *)
(* lists.                                                                  *)
(***************************************************************************)
C6_InvocationBound ==
    ScanDone =>
        Len(invocations) <= SumPow(Branching(scan_result.data), MaxDepth)

\* A scan of a program whose every help lists one command ran the program once
\* at each of the depths 0..5: the bound is met.
C6_Witness ==
    /\ ScanDone
    /\ Branching(scan_result.data) = 1
    /\ Len(invocations) = MaxDepth + 1

(***************************************************************************)
(* C7.  A failure at one path yields an error node for that path only.     *)
(* Whenever scan_command returns a node that lists commands, whatever the  *)
(* calls for its children returned, the node is a Commander node and no    *)
(* error node, scan_command was called for every command it lists but      *)
(* "help" (the command's path is in the visited set), and each of these    *)
(* commands has its node, an error node included, among the subcommands.   *)
(***************************************************************************)
C7_FailureIsolated ==
    (returned # NoReturn /\ "commands" \in DOMAIN returned.value)
       => LET v == returned.value
              names == {v.commands[k].name : k \in 1..Len(v.commands)} \ {S_Help}
          IN  /\ v.format = "commander"
              /\ ~IsError(v)
              /\ names # {} => HasChildren(v)
              /\ HasChildren(v) =>
                    {v.subcommands[k].key : k \in 1..Len(v.subcommands)} = names
              /\ \A name \in names :
                    cmd_str(Append(returned.cmd_path, name)) \in visited

\* A node returned whose first child failed and whose later child was still
\* probed and parsed.
C7_Witness ==
    /\ returned # NoReturn
    /\ HasChildren(returned.value)
    /\ Len(returned.value.subcommands) = 2
    /\ IsError(returned.value.subcommands[1].value)
    /\ ~IsError(returned.value.subcommands[2].value)
    /\ Len(returned.value.commands) = 3

(***************************************************************************)
(* C8.  In the tree a scan returns, an error node has no children.         *)
(***************************************************************************)
C8_ErrorNodesAreLeaves ==
    ScanDone =>
        \A n \in Nodes(scan_result.data) : IsError(n) => ~HasChildren(n)

\* A tree with each of the five error kinds below the root was returned.
C8_Witness ==
    /\ ScanDone
    /\ HasChildren(scan_result.data)
    /\ \E n \in Nodes(scan_result.data) :
          IsError(n) /\ n.error = "command_execution_error"
    /\ \E n \in Nodes(scan_result.data) : n = [error |-> "invalid_subcommand"]

\* The commands of a command tree, each with its full name and its structural
\* depth (the root is at depth 0).
RECURSIVE Commands(_, _, _)
Commands(cmd_data, cmd_name, depth) ==
    {[name |-> cmd_name, depth |-> depth]} \cup
        IF HasChildren(cmd_data)
        THEN UNION {Commands(cmd_data.subcommands[k].value,
                             cmd_name \o <<" ">> \o cmd_data.subcommands[k].key,
                             depth + 1) :
                       k \in 1..Len(cmd_data.subcommands)}
        ELSE {}

\* line is one of the lines of text.
HasLine(text, line) ==
    Contains(<<"\n">> \o text \o <<"\n">>, <<"\n">> \o line \o <<"\n">>)

\* generate() has returned.
Generated == markdown # NoText

\* The document has the table of contents entry of the command c.
InToc(c) == HasLine(markdown, TocEntry(c.name, c.depth))

\* The document has the body heading of the command c: generate() renders the
\* root at depth 1, so a command of structural depth d at depth d + 1.
InBody(c) == HasLine(markdown, Heading(c.depth + 1) \o <<" ">> \o c.name)

(***************************************************************************)
(* C9, as claimed.  The visited set is empty when a scan starts, so the    *)
(* root of a scan is never the already_visited error node, also for a      *)
(* second scan() on the same CLIScanner.                                   *)
(***************************************************************************)
C9_Original ==
    /\ (AtEntry /\ Top.depth = 0) => visited = {}
    /\ ScanDone => scan_result.data # [error |-> "already_visited"]

(***************************************************************************)
(* C10, as claimed.  In a document generated with a table of contents, a   *)
(* command of the tree has a table of contents entry if and only if it has *)
(* a body heading: both walks clip the tree at the same depth.             *)
(***************************************************************************)
C10_Original ==
    (Generated /\ config.include_toc) =>
        \A c \in Commands(DataOf(data), data.command, 0) :
            InToc(c) <=> InBody(c)

\* The lines of the generated document.
Lines == Split(markdown, "\n")

\* The commands generate_command_docs walks to when no depth limit stops it,
\* each with its full name, its structural depth (the root is at depth 0) and
\* its node.
RECURSIVE Sections(_, _, _)
Sections(cmd_data, cmd_name, depth) ==
    {[name |-> cmd_name, depth |-> depth, node |-> cmd_data]} \cup
        IF ~IsError(cmd_data) /\ FormatOf(cmd_data) = "commander"
              /\ HasChildren(cmd_data)
        THEN UNION {Sections(cmd_data.subcommands[k].value,
                             cmd_name \o <<" ">> \o cmd_data.subcommands[k].key,
                             depth + 1) :
                       k \in 1..Len(cmd_data.subcommands)}
        ELSE {}

\* The error nodes of the document's tree that the body's depth limit leaves
\* in: generate() renders the root at depth 1.
ErrorSections ==
    {c \in Sections(DataOf(data), data.command, 0) :
        IsError(c.node) /\ c.depth + 1 <= config.max_depth}

\* The error kind of an error node: its error and its error_type.
KindOf(node) == <<node.error, ErrorTypeOf(node)>>

\* The index in lines of the body heading of the command c, 0 when there is
\* none.
HeadingLine(lines, c) ==
    LET hits == {i \in 1..Len(lines) :
                    lines[i] = Heading(c.depth + 1) \o <<" ">> \o c.name}
    IN  IF hits = {} THEN 0 ELSE Min(hits)

\* The section that starts at the heading lines[i] is a stub: the heading, an
\* empty line, one line, and nothing but empty lines up to the next heading
\* or the end of the document.
StubAt(lines, i) ==
    /\ i # 0
    /\ i + 2 <= Len(lines)
    /\ lines[i + 1] = <<>>
    /\ lines[i + 2] # <<>>
    /\ \A j \in (i + 3)..Len(lines) :
          (\A k \in (i + 3)..j : ~StartsWith(lines[k], <<"#">>))
             => lines[j] = <<>>

\* The section of c in the document is a stub.
IsStub(lines, c) == \E i \in {HeadingLine(lines, c)} : StubAt(lines, i)

\* The sentence of the stub of c.
StubSentence(lines, c) ==
    CHOOSE line \in {lines[i + 2] : i \in {HeadingLine(lines, c)}} : TRUE

(***************************************************************************)
(* C11, as claimed.  Every error node within the depth limit has a stub in *)
(* the body, and the sentence of the stub is specific to the error kind:   *)
(* two error nodes of different kinds have different sentences.            *)
(***************************************************************************)
C11_Original ==
    Generated =>
        \A lines \in {Lines} : \A stubs \in {ErrorSections} :
            /\ \A c \in stubs : IsStub(lines, c)
            /\ \A c, d \in stubs :
                  KindOf(c.node) # KindOf(d.node)
                     => StubSentence(lines, c) # StubSentence(lines, d)

(***************************************************************************)
(* C11, amended.  Every error node that generate_command_docs reaches at a *)
(* depth of at most max_depth (the root is rendered at depth 1) has a stub *)
(* in the body: its heading and one sentence, which is the sentence about  *)
(* option serialization when the node's error_type is bigint_serialization *)
(* and one and the same generic sentence for every other error node.       *)
(***************************************************************************)
C11_ErrorStub ==
    Generated =>
        \A lines \in {Lines} : \A stubs \in {ErrorSections} :
            \A c \in stubs :
                /\ IsStub(lines, c)
                /\ StubSentence(lines, c) =
                      IF ErrorTypeOf(c.node) = "bigint_serialization"
                      THEN Strip(S_ErrorBigInt)
                      ELSE Strip(S_ErrorOther)

\* A document has the stub of a command that failed to serialize its options
\* and the stub of a command that failed otherwise.
C11_Witness ==
    /\ Generated
    /\ \E lines \in {Lines} : \E c, d \in ErrorSections :
          /\ ErrorTypeOf(c.node) = "bigint_serialization"
          /\ d.node = ErrorNode("invalid_subcommand")
          /\ IsStub(lines, c)
          /\ IsStub(lines, d)
          /\ StubSentence(lines, c) # StubSentence(lines, d)

(***************************************************************************)
(* C12, as claimed.  Every string of the command tree has '<' and '>'      *)
(* replaced by their entities before it is put into the document: no       *)
(* document has a literal angle bracket.  (No title and no fixed text of   *)
(* the generator has one, so an angle bracket of a document is one of the  *)
(* command tree.)                                                          *)
(***************************************************************************)
C12_Original ==
    Generated =>
        /\ ~Contains(markdown, <<"<">>)
        /\ ~Contains(markdown, <<">">>)

\* The Commander nodes of the document's tree whose options the body renders.
OptionSections ==
    {c \in Sections(DataOf(data), data.command, 0) :
        /\ ~IsError(c.node)
        /\ FormatOf(c.node) = "commander"
        /\ c.depth + 1 <= config.max_depth
        /\ HasList(c.node, "options")}

\* The number of '|' of line that no backslash escapes.
Pipes(line) ==
    Cardinality({k \in 1..Len(line) :
                    line[k] = "|" /\ (k = 1 \/ line[k - 1] # "\\")})

\* text with every '|' escaped.
EscapePipes(cell) == Replace(cell, <<"|">>, <<"\\", "|">>)

(***************************************************************************)
(* C13, as claimed.  In table layout every line of the options table is a  *)
(* two-column row (it has three '|' that are not escaped), and each option *)
(* has the row of its flags and its description, every '|' of both         *)
(* escaped; in list layout each option has the bullet line of its flags    *)
(* and its description.                                                    *)
(***************************************************************************)
C13_Original ==
    Generated =>
        \A lines \in {Lines} : \A c \in OptionSections :
            \A k \in 1..Len(c.node.options) :
                \E flags \in {Flags(c.node.options[k])} :
                \E desc \in {escape_html_entities(
                                 GetText(c.node.options[k], "description"))} :
                    IF config.option_table_format = "table"
                    THEN /\ \A i \in 1..Len(lines) :
                               StartsWith(lines[i], <<"|">>)
                                  => Pipes(lines[i]) = 3
                         /\ \E i \in 1..Len(lines) :
                               lines[i] = <<"|", " ", "BQ">>
                                             \o EscapePipes(flags)
                                             \o <<"BQ", " ", "|", " ">>
                                             \o EscapePipes(desc)
                                             \o <<" ", "|">>
                    ELSE \E i \in 1..Len(lines) :
                            lines[i] = <<"-", " ", "BQ">> \o flags
                                           \o <<"BQ", " ", "-", " ">> \o desc

(***************************************************************************)
(* C14, as claimed.  A slug never has two consecutive hyphens and never    *)
(* starts or ends with a hyphen, whichever renderer's slugify made it.     *)
(***************************************************************************)
C14_Original ==
    slug # NoSlug =>
        /\ ~Contains(slug.value, <<"-", "-">>)
        /\ ~StartsWith(slug.value, <<"-">>)
        /\ slug.value # <<>> => slug.value[Len(slug.value)] # "-"

(***************************************************************************)
(* C15.  slugify is idempotent: the slug of a slug is that slug, for the   *)
(* slugify of both renderers.                                              *)
(***************************************************************************)
C15_SlugIdempotent ==
    [][(slug # NoSlug /\ slug' # slug) => slug'.value = slug.value]_vars

\* slugify was called with a slug that differs from the heading text it was
\* made from, once for each renderer's kind of change.
C15_Witness ==
    /\ slug # NoSlug
    /\ slug.of = SlugOf(slug.renderer, heading_text)
    /\ slug.of # heading_text
    /\ slug.value = slug.of
    /\ Contains(slug.value, <<"-">>)

\* The lines of generate_introduction().
IntroductionLines == Split(S_Introduction, "\n")

\* The lines of the document that belong to its parts, in the order title,
\* metadata, introduction, table of contents, body: the title line, the lines
\* of the metadata, the lines of the introduction, the heading and the entries
\* of the table of contents, and the headings of the body.
Parts(lines) ==
    <<{i \in 1..Len(lines) : StartsWith(lines[i], <<"#", " ">>)},
      {i \in 1..Len(lines) :
          \/ StartsWith(lines[i], S_Generated)
          \/ StartsWith(lines[i], S_Package)
          \/ StartsWith(lines[i], SubSeq(S_CommandOpen, 1, 10))},
      {i \in 1..Len(lines) :
          /\ lines[i] # <<>>
          /\ \E k \in 1..Len(IntroductionLines) :
                lines[i] = IntroductionLines[k]},
      {i \in 1..Len(lines) :
          \/ lines[i] \o <<"\n">> = S_TocHeading
          \/ StartsWith(LStrip(lines[i]), <<"-", " ", "[">>)},
      {i \in 1..Len(lines) :
          /\ StartsWith(lines[i], <<"#", "#">>)
          /\ lines[i] \o <<"\n">> # S_TocHeading}>>

\* Every line of the part p comes before every line of the part q.
PartBefore(parts, p, q) == \A i \in parts[p] : \A j \in parts[q] : i < j

(***************************************************************************)
(* C16.  The parts of a generated document come in the order title,        *)
(* metadata, introduction, table of contents, body: no line of a part      *)
(* comes before a line of an earlier part.  A part that is disabled is     *)
(* absent: no title line when the title is empty, no metadata when         *)
(* include_metadata is off, no table of contents when include_toc is off,  *)
(* and the introduction is there for the API reference and only for it.    *)
(***************************************************************************)
C16_PartsInOrder ==
    Generated =>
        \A parts \in {Parts(Lines)} :
            /\ \A p, q \in 1..5 : p < q => PartBefore(parts, p, q)
            /\ parts[1] = IF HasText(config, "title") THEN {1} ELSE {}
            /\ ~config.include_metadata => parts[2] = {}
            /\ (parts[3] # {}) <=> (generator = "aztecjs")
            /\ ~config.include_toc => parts[4] = {}

\* A document of the API reference has all five parts.
C16_Witness ==
    /\ Generated
    /\ generator = "aztecjs"
    /\ \A parts \in {Parts(Lines)} : \A p \in 1..5 : parts[p] # {}

EndsWith(s, suffix) ==
    /\ Len(suffix) <= Len(s)
    /\ SubSeq(s, Len(s) - Len(suffix) + 1, Len(s)) = suffix

(***************************************************************************)
(* C18, as claimed.  When the template module defines custom_header, the   *)
(* heading of every command in the body is what custom_header returns for  *)
(* its name and depth, and when it defines custom_footer the document ends *)
(* with what custom_footer returns.                                        *)
(***************************************************************************)
C18_Original ==
    (Generated /\ generator = "cli" /\ template # NoTemplate) =>
        /\ template.custom_header =>
              \A c \in Sections(DataOf(data), data.command, 0) :
                  c.depth + 1 <= config.max_depth
                     => Contains(<<"\n">> \o markdown,
                                 <<"\n">> \o custom_header(c.name, c.depth + 1))
        /\ template.custom_footer => EndsWith(markdown, custom_footer)

\* Some line of the text is two spaces, an upper-case letter and then one or
\* more upper-case letters or spaces.
HasSectionLine(help_output) ==
    \E lines \in {Split(help_output, "\n")} : \E i \in 1..Len(lines) :
        /\ Len(lines[i]) >= 4
        /\ SubSeq(lines[i], 1, 2) = <<" ", " ">>
        /\ lines[i][3] \in UpperCase
        /\ \A k \in 4..Len(lines[i]) : lines[i][k] \in UpperCase \cup {" "}

\* The text has the usage marker and a commands or an arguments marker.
HasStructuredMarkers(help_output) ==
    /\ Contains(help_output, S_Usage)
    /\ Contains(help_output, S_Commands) \/ Contains(help_output, S_Arguments)

(***************************************************************************)
(* C19, as claimed.  A captured text that passed the failure checks is     *)
(* classified by first match: Commander if and only if it has the usage    *)
(* marker and 'Commands:' or 'Arguments:'; otherwise custom if and only if *)
(* one of its lines is a two-space-indented all-caps run; otherwise raw,   *)
(* with the text stored as it is.                                          *)
(***************************************************************************)
C19_Original ==
    (Probed /\ ~IsError(returned.value)) =>
        \E help_output \in {Captured} :
            /\ (returned.value.format = "commander")
                  <=> HasStructuredMarkers(help_output)
            /\ (returned.value.format = "custom")
                  <=> (~HasStructuredMarkers(help_output)
                          /\ HasSectionLine(help_output))
            /\ (returned.value.format = "raw")
                  <=> (~HasStructuredMarkers(help_output)
                          /\ ~HasSectionLine(help_output))
            /\ (returned.value.format = "raw")
                  => returned.value.raw_help = help_output

\* The lines of the text the loop has gone through.
ParsedLines ==
    SubSeq(Split(parser_text, "\n"), 1, parse_result.line - 1)

IsUsageLine(line) == StartsWith(Strip(line), S_Usage)

\* A usage line with text after the marker.
CapturesUsage(line) ==
    IsUsageLine(line) /\ Strip(Replace(line, S_Usage, <<>>)) # <<>>

IsSectionMarker(line) ==
    /\ ~IsUsageLine(line)
    /\ \/ Contains(line, S_Options)
       \/ Contains(line, S_Commands)
       \/ Contains(line, S_Arguments)

\* A non-blank line that does not start with a space, is neither a usage line
\* nor a section marker, and has no section marker before it.
PlainBeforeSections(lines, i) ==
    /\ Strip(lines[i]) # <<>>
    /\ ~StartsWith(lines[i], <<" ">>)
    /\ ~IsUsageLine(lines[i])
    /\ ~IsSectionMarker(lines[i])
    /\ \A k \in 1..(i - 1) : ~IsSectionMarker(lines[k])

\* The stripped first line among the candidates, or the empty text.
FirstOf(lines, candidates) ==
    IF candidates = {} THEN <<>> ELSE Strip(lines[Min(candidates)])

(***************************************************************************)
(* C20, as claimed.  After any number of lines, the description is the     *)
(* first non-indented, non-blank line that follows a usage line which      *)
(* captured a usage and precedes every section marker (and is empty when   *)
(* there is no such line): so it is never changed once set, and never      *)
(* taken from a line before every usage line or after a section marker.    *)
(***************************************************************************)
C20_Original ==
    parse_result # NoParse =>
        \A lines \in {ParsedLines} :
            parse_result.result.description =
                FirstOf(lines,
                    {i \in 1..Len(lines) :
                        /\ PlainBeforeSections(lines, i)
                        /\ \E j \in 1..(i - 1) : CapturesUsage(lines[j])})

(***************************************************************************)
(* C20, amended.  After any number of lines, the description is the first  *)
(* non-indented, non-blank line that precedes every section marker and     *)
(* whose nearest preceding usage line captured a non-empty usage (a later  *)
(* usage line that captures nothing clears the usage, and no description   *)
(* is taken after it); it is empty when there is no such line.  So it is   *)
(* never changed once set, and never taken from a line before every usage  *)
(* line or after a section marker.                                         *)
(***************************************************************************)
C20_FirstDescription ==
    parse_result # NoParse =>
        \A lines \in {ParsedLines} :
            parse_result.result.description =
                FirstOf(lines,
                    {i \in 1..Len(lines) :
                        /\ PlainBeforeSections(lines, i)
                        /\ \E j \in 1..(i - 1) :
                               /\ CapturesUsage(lines[j])
                               /\ \A k \in (j + 1)..(i - 1) :
                                      ~IsUsageLine(lines[k])})

\* The loop has set the description from one line and then passed another
\* qualifying line without changing it.
C20_Witness ==
    /\ parse_result # NoParse
    /\ parse_result.result.description = <<"d", "e", "s", "c">>
    /\ \E lines \in {ParsedLines} :
           /\ Len(lines) = 3
           /\ lines[3] = <<"d", "2", " ">>
           /\ PlainBeforeSections(lines, 3)

\* The lines of the custom help text the loop has gone through.
CustomParsedLines ==
    SubSeq(Split(parser_text, "\n"), 1, parse_result.line - 1)

\* The description of the option current_option refers to.
CurrentDescription ==
    parse_result.result.sections[parse_result.current_option.section]
        .options[parse_result.current_option.option].description

IsHeaderLine(line) ==
    SectionMatch(line) # NoMatch /\ ~StartsWith(Strip(line), <<"-">>)

\* Line i is an option line inside a section.
IsOptionLine(lines, i) ==
    /\ ~IsHeaderLine(lines[i])
    /\ CustomOptionMatch(lines[i]) # NoMatch
    /\ \E h \in 1..(i - 1) : IsHeaderLine(lines[h])

\* Non-empty, not starting with a dash, indented by at least ten spaces.
ContinuationShaped(line) ==
    /\ Strip(line) # <<>>
    /\ ~StartsWith(Strip(line), <<"-">>)
    /\ Len(line) >= 10
    /\ \A k \in 1..10 : line[k] = " "

\* The line the loop takes as a description line once an option is current:
\* not a header, not an option line, non-empty, not starting with two dashes,
\* and with ten or more leading whitespace characters.
IsContinuation(line) ==
    /\ ~IsHeaderLine(line)
    /\ CustomOptionMatch(line) = NoMatch
    /\ Strip(line) # <<>>
    /\ ~StartsWith(Strip(line), <<"-", "-">>)
    /\ DescMatch(line) # NoMatch

(***************************************************************************)
(* C21, as claimed.  When an option line has been followed by two or more  *)
(* continuation lines (non-empty, not starting with a dash, indented by at *)
(* least ten spaces) and nothing else, the option's description is the     *)
(* first of these lines.                                                   *)
(***************************************************************************)
C21_Original ==
    parse_result # NoParse =>
        \A lines \in {CustomParsedLines} : \A i \in 1..Len(lines) :
            (/\ IsOptionLine(lines, i)
             /\ Len(lines) >= i + 2
             /\ \A j \in (i + 1)..Len(lines) : ContinuationShaped(lines[j]))
                => CurrentDescription = Strip(lines[i + 1])

(***************************************************************************)
(* C21, amended.  When an option line has been followed by one or more     *)
(* continuation lines (non-empty, not starting with two dashes, indented   *)
(* by at least ten whitespace characters) and nothing else, the option's   *)
(* description is a single line, the last of these lines read so far,      *)
(* stripped: each continuation line overwrites the description, so it is   *)
(* never the first of several and never a concatenation.                   *)
(***************************************************************************)
C21_LastContinuation ==
    parse_result # NoParse =>
        \A lines \in {CustomParsedLines} : \A i \in 1..Len(lines) :
            (/\ IsOptionLine(lines, i)
             /\ Len(lines) >= i + 1
             /\ \A j \in (i + 1)..Len(lines) : IsContinuation(lines[j]))
                => CurrentDescription = Strip(lines[Len(lines)])

\* The loop has read a header, an option line and two different continuation
\* lines, and the option holds the second one.
C21_Witness ==
    /\ parse_result # NoParse
    /\ \E lines \in {CustomParsedLines} :
           /\ Len(lines) = 4
           /\ IsOptionLine(lines, 2)
           /\ IsContinuation(lines[3])
           /\ IsContinuation(lines[4])
           /\ lines[3] # lines[4]
           /\ CurrentDescription = Strip(lines[4])

(***************************************************************************)
(* C25, as claimed.  A section header resets the current option: when the  *)
(* loop reads a continuation-shaped line that comes after a section header *)
(* with no option line in between, no option's description changes (the    *)
(* result stays as it is), in particular not that of the last option of    *)
(* the previous section.                                                   *)
(***************************************************************************)
C25_Original ==
    [][parse_result # NoParse =>
          \A lines \in {Split(parser_text, "\n")} :
              \A n \in {parse_result.line} :
                  (/\ n <= Len(lines)
                   /\ ContinuationShaped(lines[n])
                   /\ \E h \in 1..(n - 1) :
                          /\ IsHeaderLine(lines[h])
                          /\ \A k \in (h + 1)..(n - 1) :
                                 ~IsOptionLine(lines, k))
                      => parse_result'.result = parse_result.result]_vars

\* The indices of the option lines among the lines.
OptionLines(lines) == {i \in 1..Len(lines) : IsOptionLine(lines, i)}

\* The options of all sections, in the order they were appended.
AllOptions(result) ==
    Flatten([s \in 1..Len(result.sections) |-> result.sections[s].options])

\* The stripped last description line between option line i and the next
\* option line, or the empty text when there is none.
DescriptionAfter(lines, i, stops) ==
    \* stops: the option lines after i, and the end of the lines
    LET conts == {j \in (i + 1)..(Min(stops) - 1) : IsContinuation(lines[j])}
    IN  IF conts = {} THEN <<>> ELSE Strip(lines[Max(conts)])

(***************************************************************************)
(* C29.  In the Sectioned parser the usage and description fields of the   *)
(* result are always empty, there is one option per option line, and an    *)
(* option's description comes only from description lines: it is the       *)
(* (stripped) last description line read between its option line and the   *)
(* next option line, and empty when there is none, whatever text follows   *)
(* the flag on the option line itself.                                     *)
(***************************************************************************)
C29_DescriptionFromContinuation ==
    parse_result # NoParse =>
        \A lines \in {CustomParsedLines} :
        \A options \in {AllOptions(parse_result.result)} :
        \A at \in {OptionLines(lines)} :
            /\ parse_result.result.usage = <<>>
            /\ parse_result.result.description = <<>>
            /\ Len(options) = Cardinality(at)
            /\ \A i \in at :
                   options[Cardinality({j \in at : j <= i})].description =
                       DescriptionAfter(lines, i,
                           {j \in at : j > i} \cup {Len(lines) + 1})

\* The loop has read an option line with text after its flag and lines that
\* are not description lines, to the end of the text: the option's
\* description is empty.
C29_Witness ==
    /\ parse_result # NoParse
    /\ \E lines \in {Split(parser_text, "\n")} :
           /\ parse_result.line = Len(lines) + 1
           /\ Len(lines) = 3
           /\ IsOptionLine(lines, 2)
           /\ Contains(lines[2], <<"t", "h", "e", " ", "p", "o", "r", "t">>)
           /\ ~IsContinuation(lines[3])
           /\ lines[3] # <<>>
           /\ AllOptions(parse_result.result)[1].description = <<>>

\* The names a node's parsed commands list, without the literal "help".
ChildNames(node) ==
    {node.commands[k].name : k \in 1..Len(node.commands)} \ {S_Help}

\* The keys of a node's subcommands.
ChildKeys(node) ==
    {node.subcommands[k].key : k \in 1..Len(node.subcommands)}

\* The child that the parent's activation holds for the key, as a set.
ChildValues(frame, key) ==
    {frame.subcommands[k].value :
        k \in {j \in 1..Len(frame.subcommands) : frame.subcommands[j].key = key}}

(***************************************************************************)
(* C22.  In the tree a scan returns only Commander nodes have children,    *)
(* and the children's keys are exactly the names of the node's parsed      *)
(* commands except the literal "help".  Every recursive call is made for   *)
(* such a name with path = the parent's path + [name], depth = the         *)
(* parent's depth + 1 and parent_help = the text captured for the parent;  *)
(* and whatever node the call returns, an error node or not, is what the   *)
(* parent holds for that name afterwards.                                  *)
(***************************************************************************)
C22_ChildrenOfCommanderNodes ==
    [][/\ ScanDone' =>
             \A n \in Nodes(scan_result'.data) :
                 /\ HasChildren(n) =>
                        /\ ~IsError(n)
                        /\ n.format = "commander"
                        /\ ChildKeys(n) = ChildNames(n)
                 /\ (~IsError(n) /\ n.format = "commander"
                        /\ ~HasChildren(n)) => ChildNames(n) = {}
                 /\ (~IsError(n) /\ n.format # "commander")
                        => "commands" \notin DOMAIN n
       /\ Len(stack') = Len(stack) + 1 /\ stack # <<>> =>
             \E child \in {stack'[Len(stack')]} :
                 /\ Top.help_output =
                        run_command(program, Top.cmd_path \o <<S_HelpFlag>>)
                 /\ \E name \in ChildNames(Top.parsed) :
                        child.cmd_path = Append(Top.cmd_path, name)
                 /\ child.depth = Top.depth + 1
                 /\ child.parent_help = Top.help_output
       /\ Len(stack') = Len(stack) - 1 /\ stack' # <<>> =>
             \E parent \in {stack'[Len(stack')]} :
                 /\ returned'.cmd_path = Top.cmd_path
                 /\ ChildValues(parent,
                                Top.cmd_path[Len(Top.cmd_path)])
                        = {returned'.value}]_vars

\* A scan returned a tree whose root skipped "help" and holds both an error
\* node and a parsed node among its children.
C22_Witness ==
    /\ ScanDone
    /\ HasChildren(scan_result.data)
    /\ Len(scan_result.data.commands) = 3
    /\ ChildKeys(scan_result.data) = {<<"a">>, <<"b">>}
    /\ \E k \in 1..2 : IsError(scan_result.data.subcommands[k].value)
    /\ \E k \in 1..2 : HasChildren(scan_result.data.subcommands[k].value)

(***************************************************************************)
(* C23.  In one scan run_command is called at most once for each command   *)
(* path (no two of the scan's argument lists are equal, so nothing is      *)
(* retried after a failure or a timeout); a call of scan_command for a     *)
(* path in the visited set calls run_command for nothing, and during the   *)
(* scan no path leaves the visited set and every path run_command was      *)
(* called for is in it.                                                    *)
(***************************************************************************)
C23_InvokedOncePerPath ==
    [][/\ \A i, j \in 1..Len(invocations') :
              invocations'[i] = invocations'[j] => i = j
       /\ (AtEntry /\ cmd_str(Top.cmd_path) \in visited)
              => invocations' = invocations
       /\ stack # <<>> => visited \subseteq visited'
       /\ stack # <<>> =>
              \A i \in 1..Len(invocations') :
                  cmd_str(SubSeq(invocations'[i], 1, Len(invocations'[i]) - 1))
                      \in visited']_vars

\* A scan ran the program for a command that failed (it gave no output) and
\* then met the same command again, listed a second time, without running the
\* program for it again.
C23_Witness ==
    /\ returned # NoReturn
    /\ returned.value = [error |-> "already_visited"]
    /\ returned.depth = 2
    /\ Len(invocations) = 3
    /\ invocations[3] = returned.cmd_path \o <<S_HelpFlag>>
    /\ program[<<"b">>] = NoText

(***************************************************************************)
(* C24.  When scan_command is entered at a depth of at most 5 for a path   *)
(* not yet visited and run_command gives no text (the program timed out or *)
(* could not be run: None; or it printed nothing), the call returns the    *)
(* no_help_output error node at once: the program was run once, for this   *)
(* path, no child is called (the activation is gone after the step, and    *)
(* the node has no children), the caller goes on (the return reaches the   *)
(* caller's loop or scan()), and the path is in the visited set and stays  *)
(* there during the scan.                                                  *)
(***************************************************************************)
C24_NoOutputNode ==
    [][/\ (/\ AtEntry
           /\ Top.depth <= MaxDepth
           /\ cmd_str(Top.cmd_path) \notin visited
           /\ \/ Subprocess(program, Top.cmd_path \o <<S_HelpFlag>>) = NoText
              \/ run_command(program, Top.cmd_path \o <<S_HelpFlag>>) = <<>>)
              => /\ returned' # NoReturn
                 /\ returned'.cmd_path = Top.cmd_path
                 /\ returned'.value = [error |-> "no_help_output"]
                 /\ invocations' =
                        Append(invocations, Top.cmd_path \o <<S_HelpFlag>>)
                 /\ Len(stack') = Len(stack) - 1
                 /\ cmd_str(Top.cmd_path) \in visited'
                 /\ IF stack' = <<>>
                    THEN scan_result' # NoResult
                         /\ scan_result'.data = returned'.value
                    ELSE stack'[Len(stack')].pc = "loop"
       /\ (returned # NoReturn /\ stack # <<>>
              /\ returned.value = [error |-> "no_help_output"])
              => cmd_str(returned.cmd_path) \in visited']_vars

\* A command that timed out and one that printed nothing have both returned
\* the no_help_output node to a parent that went on to its next command.
C24_Witness ==
    /\ returned # NoReturn
    /\ returned.depth = 1
    /\ returned.value = [error |-> "no_help_output"]
    /\ stack # <<>>
    /\ Top.i = 3
    /\ {program[<<"a">>], program[<<"b">>]} = {NoText, <<>>}
    /\ \A k \in 1..2 :
           Top.subcommands[k].value = [error |-> "no_help_output"]

\* The names the node's parsed commands list more than once, without "help".
RepeatedNames(node) ==
    {name \in ChildNames(node) :
        \E i, j \in 1..Len(node.commands) :
            i # j /\ node.commands[i].name = name /\ node.commands[j].name = name}

(***************************************************************************)
(* C27.  When the parsed commands of a Commander node list a name more     *)
(* than once, the node that scan_command returns has exactly one child     *)
(* entry for the name and it is the already_visited error node (the later  *)
(* occurrence met the visited guard and its result replaced the node of    *)
(* the first occurrence); the child's path is in the visited set; and      *)
(* below the depth limit, in the scan that first meets the path, the       *)
(* program was run exactly once for it (the first occurrence was probed).  *)
(***************************************************************************)
C27_RepeatedNameIsError ==
    (returned # NoReturn /\ "commands" \in DOMAIN returned.value) =>
        \A name \in RepeatedNames(returned.value) :
            /\ HasChildren(returned.value)
            /\ Cardinality({k \in 1..Len(returned.value.subcommands) :
                               returned.value.subcommands[k].key = name}) = 1
            /\ \A k \in 1..Len(returned.value.subcommands) :
                   returned.value.subcommands[k].key = name =>
                       returned.value.subcommands[k].value
                           = [error |-> "already_visited"]
            /\ cmd_str(Append(returned.cmd_path, name)) \in visited
            /\ returned.depth < MaxDepth =>
                   Cardinality({i \in 1..Len(invocations) :
                       invocations[i] =
                           returned.cmd_path \o <<name, S_HelpFlag>>}) = 1

\* A node that lists b twice returned: the program had printed a help with
\* commands for the first b, and the node's only entry for b is the error node.
C27_Witness ==
    /\ returned # NoReturn
    /\ "commands" \in DOMAIN returned.value
    /\ RepeatedNames(returned.value) = {<<"b">>}
    /\ IsCommander(run_command(program, <<<<"b">>, S_HelpFlag>>))
    /\ Len(returned.value.subcommands) = 1
    /\ returned.value.subcommands[1].value = [error |-> "already_visited"]

\* The names of the entries listed under an 'Arguments:' header: the first
\* word of each line that follows the header before the next header, is not
\* blank, does not start with a dash, and holds a name and a description
\* separated by two or more spaces.
ArgumentNames(help_output) ==
    UNION {
        {FirstWord(Strip(lines[i])) :
            i \in {k \in 1..Len(lines) :
                     /\ \E h \in 1..(k - 1) :
                            /\ Contains(lines[h], S_Arguments)
                            /\ \A m \in h..k :
                                   /\ ~Contains(lines[m], S_Options)
                                   /\ ~Contains(lines[m], S_Commands)
                                   /\ ~IsUsageLine(lines[m])
                     /\ ~Contains(lines[k], S_Arguments)
                     /\ Strip(lines[k]) # <<>>
                     /\ ~StartsWith(Strip(lines[k]), <<"-">>)
                     /\ Len(SplitOnSpaces(Strip(lines[k]))) = 2}}
        : lines \in {Split(help_output, "\n")}}

(***************************************************************************)
(* C28.  When scan_command returns a Commander node, every entry that the  *)
(* captured text lists under an 'Arguments:' header is in the node's       *)
(* commands, as an entry under 'Commands:' is, and was probed as a         *)
(* subcommand: the path + [argument name] is in the visited set and,       *)
(* unless the name is "help", the node has a child for the name.           *)
(***************************************************************************)
C28_ArgumentsAreCommands ==
    (Probed /\ ~IsError(returned.value)
        /\ returned.value.format = "commander") =>
        \A name \in ArgumentNames(Captured) :
            /\ \E k \in 1..Len(returned.value.commands) :
                   returned.value.commands[k].name = name
            /\ name # S_Help =>
                   /\ HasChildren(returned.value)
                   /\ name \in ChildKeys(returned.value)
                   /\ cmd_str(Append(returned.cmd_path, name)) \in visited
                   /\ returned.depth < MaxDepth =>
                          \E i \in 1..Len(invocations) :
                              invocations[i] =
                                  returned.cmd_path \o <<name, S_HelpFlag>>

\* The root's help lists the argument b and the command a: both are children
\* of the root, and b's node was parsed from what the program printed for it.
C28_Witness ==
    /\ ScanDone
    /\ returned # NoReturn
    /\ returned.depth = 0
    /\ Captured = HelpArgsCommands
    /\ ArgumentNames(Captured) = {<<"b">>}
    /\ ChildKeys(scan_result.data) = {<<"a">>, <<"b">>}
    /\ \E k \in 1..2 :
           /\ scan_result.data.subcommands[k].key = <<"b">>
           /\ ~IsError(scan_result.data.subcommands[k].value)

\* n '#' characters.
Hashes(n) == [i \in 1..n |-> "#"]

\* The Commander nodes with children that the body renders: generate() renders
\* the root at depth 1, so a command of structural depth d at depth d + 1.
ParentSections ==
    {c \in Sections(DataOf(data), data.command, 0) :
        /\ c.depth + 1 <= config.max_depth
        /\ ~IsError(c.node)
        /\ FormatOf(c.node) = "commander"
        /\ HasChildren(c.node)}

\* The index of the first line after lines[i] that is a heading, 0 when there
\* is none.
NextHeading(lines, i) ==
    LET hits == {j \in (i + 1)..Len(lines) : StartsWith(lines[j], <<"#">>)}
    IN  IF hits = {} THEN 0 ELSE Min(hits)

\* The first line after lines[i] that is not empty, as a set (empty when
\* there is none).
NextText(lines, i) ==
    {lines[j] : j \in {k \in (i + 1)..Len(lines) :
                          /\ lines[k] # <<>>
                          /\ \A m \in (i + 1)..(k - 1) : lines[m] = <<>>}}

(***************************************************************************)
(* C30.  In a generated document, every Commander node with children that  *)
(* is rendered at a depth d <= max_depth (the root at depth 1, its heading *)
(* with d + 1 '#') has, as the first heading after its own, a              *)
(* 'Subcommands' heading with d + 2 '#'.  When d < max_depth the section   *)
(* of its first child follows that heading; when d = max_depth no child's  *)
(* section follows: the heading, with max_depth + 2 '#', is followed by    *)
(* the end of the document or by the heading of a command that is not      *)
(* deeper than the node.                                                   *)
(***************************************************************************)
C30_SubcommandsHeading ==
    (Generated /\ generator = "cli") =>
        \A lines \in {Lines} : \A c \in ParentSections :
            \E h \in {HeadingLine(lines, c)} :
                /\ h # 0
                /\ lines[h] = Hashes(c.depth + 2) \o <<" ">> \o c.name
                /\ \E s \in {NextHeading(lines, h)} :
                       /\ s # 0
                       /\ lines[s] = Hashes(c.depth + 3)
                                        \o <<" ", "S", "u", "b", "c", "o", "m",
                                             "m", "a", "n", "d", "s">>
                       /\ IF c.depth + 1 < config.max_depth
                          THEN NextText(lines, s) =
                                   {Hashes(c.depth + 3) \o <<" ">> \o c.name
                                        \o <<" ">> \o c.node.subcommands[1].key}
                          ELSE /\ SubSeq(lines[s], 1, config.max_depth + 2) =
                                      Hashes(config.max_depth + 2)
                               /\ lines[s][config.max_depth + 3] = " "
                               /\ \A line \in NextText(lines, s) :
                                      /\ StartsWith(line, <<"#">>)
                                      /\ ~StartsWith(line, Hashes(c.depth + 3))

\* A document rendered with max_depth = 2 from a tree whose root's child "a"
\* has a child of its own and is followed by the root's child "b": the
\* Subcommands heading of "a" has four '#' and the section of "b" follows it.
C30_Witness ==
    /\ Generated
    /\ generator = "cli"
    /\ config.max_depth = 2
    /\ DataOf(data) = NestedNode
    /\ \E lines \in {Lines} : \E s \in 1..(Len(lines) - 1) :
           /\ lines[s] = <<"#", "#", "#", "#", " ", "S", "u", "b", "c", "o",
                           "m", "m", "a", "n", "d", "s">>
           /\ NextText(lines, s) = {<<"#", "#", "#", " ", "t", " ", "b">>}

\* The dictionary made of the keys of the defaults and of the caller's
\* dictionary, a key of the caller's dictionary holding the caller's value.
IsDefaultsOverridden(conf, caller) ==
    /\ DOMAIN conf = DOMAIN get_default_config \cup DOMAIN caller
    /\ \A key \in DOMAIN caller : conf[key] = caller[key]
    /\ \A key \in DOMAIN get_default_config \ DOMAIN caller :
           conf[key] = get_default_config[key]

(***************************************************************************)
(* C26.  A call of generate(), with the generate_toc() and                 *)
(* generate_command_docs() calls it makes, leaves the command tree, the    *)
(* caller's configuration dictionary and self.config as they were, and     *)
(* self.config is, before and after the call, the defaults overridden by   *)
(* the keys of the caller's dictionary, as the constructor made it.        *)
(***************************************************************************)
C26_RenderLeavesInputs ==
    [][(generator = "cli" /\ generations' = generations + 1)
          => /\ data' = data
             /\ template' = template
             /\ config' = config
             /\ IsDefaultsOverridden(config, ConfigOf(template))
             /\ IsDefaultsOverridden(config', ConfigOf(template'))]_vars

\* generate() was called twice on a generator whose caller gave a max_depth
\* other than the default one and no title, and whose tree has subcommands.
C26_Witness ==
    /\ Generated
    /\ generator = "cli"
    /\ generations = 2
    /\ template # NoTemplate
    /\ "max_depth" \in DOMAIN template.CONFIG
    /\ "title" \notin DOMAIN template.CONFIG
    /\ config.max_depth = template.CONFIG.max_depth
    /\ config.max_depth # DefaultMaxDepth
    /\ config.title = S_DefaultTitle
    /\ "data" \in DOMAIN data
    /\ HasChildren(data.data)

=============================================================================
